---- MODULE Spec2Model ----
(***************************************************************************)
(* A model of the LittleJS engine core as built into SpaceHuggers          *)
(* (src/build/index.js): the object graph and its update scheduler         *)
(* (engineUpdateObjects, EngineObject.destroy/addChild/removeChild/        *)
(* setCollision), the tile collision grid (setTileCollisionData,           *)
(* getTileCollisionData, tileCollisionTest) and the tile raycast           *)
(* (tileCollisionRaycast).                                                 *)
(*                                                                         *)
(* The specifications share the variables:                                 *)
(*   Spec      the object graph, driven by application calls between ticks *)
(*             and by the effects of update() overrides during a tick;     *)
(*   SpecGrid  the collision grid under writes and reads;                  *)
(*   SpecRay   region tests and raycasts over the grids a level can hold;  *)
(*   SpecPhys  EngineObject.update() of two objects over ticks: a child    *)
(*             and its parent, or two bodies meeting each other and tiles; *)
(*   SpecDrop  one object dropped over a tile row, under fair ticks;       *)
(*   SpecFrame the frame driver engineUpdate over display callbacks;       *)
(*   SpecScan  forEachObject with a callback that destroys objects;        *)
(*   SpecReg   constructions, setCollision, destroy and the compaction of  *)
(*             the two engine lists;                                       *)
(*   SpecGround SpecPhys with objects destroyed between updates;           *)
(*   SpecPause the frame driver with the game setting and clearing paused. *)
(***************************************************************************)
EXTENDS Integers, Sequences, FiniteSets

\* ------------------------------------------------------------------ bounds

\* Number of EngineObjects ever constructed (object identities 1..MaxEnt).
MaxEnt == 3
\* Number of fixed ticks engineUpdateObjects is run for.
MaxFrame == 2
\* Number of state-changing calls made by update() overrides in one tick.
MaxTickOps == 2

\* Size of the tile collision grid (tileCollisionSize).
GridW == 4
GridH == 1
\* Positions are fixed-point numbers with Scale units to a tile.
Scale == 2
\* Number of nonzero cells the level writes into the grid.
MaxSolid == 1

\* Coefficients (damping, elasticity, friction, gravityScale) are k/CoefDen.
CoefDen == 2
\* Number of ticks a dropped object is followed for.
MaxDropTicks == 16
\* Number of display callbacks of the frame driver.
MaxCallbacks == 3

Ent == 1..MaxEnt

\* ----------------------------------------------------------------- state

VARIABLES
    engineObjects,          \* let engineObjects = []          (sequence of Ent)
    engineCollideObjects,   \* let engineCollideObjects = []   (sequence of Ent)
    frame,                  \* let frame = 0
    objCount,               \* number of EngineObjects constructed so far
    destroyed,              \* o.destroyed            [Ent -> BOOLEAN]
    parent,                 \* o.parent, 0 when unset [Ent -> 0..MaxEnt]
    children,               \* o.children             [Ent -> Seq(Ent)]
    collideSolidObjects,    \* o.collideSolidObjects  [Ent -> BOOLEAN]
    pc,                     \* "idle" between ticks, "tick" inside engineUpdateObjects
    rootIdx,                \* position of the for-of iterator over engineObjects
    stack,                  \* updateObject activations: <<[o, i]>>, i the iterator over o.children
    updateCount,            \* times o.update() ran in the current (or last) tick
    moved,                  \* objects constructed or re-parented in the current (or last) tick
    tickOps,                \* state-changing calls made by update() in the current tick
    tileCollisionSize,      \* let tileCollisionSize = vec2()  [x, y] in tiles
    tileCollision,          \* let tileCollision = []          array index -> collision code
    gridOp,                 \* the last call on the grid, its arguments and what it returned
    body,                   \* the physics fields of each EngineObject  [Ent -> record]
    physOp,                 \* the last update(): the object, the fields before it, its branches
    frameTimeBufferMS,      \* let frameTimeBufferMS = 0, in units of 1/6 ms
    paused,                 \* let paused = 0
    callbacks,              \* display callbacks run; ticks run by the last one and its time delta
    scan                    \* the forEachObject call in progress or last made

objVars == <<engineObjects, engineCollideObjects, frame, objCount, destroyed, parent,
             children, collideSolidObjects, pc, rootIdx, stack, updateCount, moved,
             tickOps>>

gridVars == <<tileCollisionSize, tileCollision, gridOp>>

physVars == <<body, physOp>>

timeVars == <<frameTimeBufferMS, paused, callbacks>>

extVars == <<physVars, timeVars, scan>>

vars == <<objVars, gridVars, extVars>>

\* The object graph as one value, so that the methods are functions on it.
World ==
    [engineObjects |-> engineObjects, engineCollideObjects |-> engineCollideObjects,
     objCount |-> objCount, destroyed |-> destroyed, parent |-> parent,
     children |-> children, collideSolidObjects |-> collideSolidObjects]

\* ------------------------------------------------------- array helpers

\* Array.prototype.indexOf, 1-based; 0 when absent (JavaScript's -1).
indexOf(s, x) ==
    IF \E i \in 1..Len(s) : s[i] = x
    THEN CHOOSE i \in 1..Len(s) : s[i] = x /\ \A j \in 1..(i-1) : s[j] # x
    ELSE 0

\* Array.prototype.includes
includes(s, x) == \E i \in 1..Len(s) : s[i] = x

\* Array.prototype.splice(i, 1); an index of -1 (here 0) removes the last element.
splice(s, i) ==
    LET k == IF i = 0 THEN Len(s) ELSE i
    IN  IF k = 0 THEN s
        ELSE [j \in 1..(Len(s)-1) |-> IF j < k THEN s[j] ELSE s[j+1]]

\* Times x occurs in s.
occurrences(s, x) == Cardinality({i \in 1..Len(s) : s[i] = x})

\* ------------------------------------------------ EngineObject methods

\* new EngineObject(...): the constructor registers the object.
constructor(w) ==
    LET o == w.objCount + 1
    IN  [w EXCEPT !.objCount = o,
                  !.engineObjects = Append(@, o),
                  !.destroyed[o] = FALSE,
                  !.parent[o] = 0,
                  !.children[o] = <<>>,
                  !.collideSolidObjects[o] = FALSE]

\* p.addChild(c)
addChild(w, p, c) ==
    [w EXCEPT !.children[p] = Append(@, c),
              !.parent[c] = p]

\* removeChild() that forgets to clear the child's parent.
removeChildKeepParent(w, p, c) ==
    [w EXCEPT !.children[p] = splice(@, indexOf(@, c))]

\* p.removeChild(c)
removeChild(w, p, c) ==
    [w EXCEPT !.children[p] = splice(@, indexOf(@, c)),
              !.parent[c] = 0]

RECURSIVE destroy(_, _)
RECURSIVE destroyChildren(_, _, _)

\* destroy() that flags and detaches the children without destroying them in
\* turn (child.destroyed = 1 in place of child.destroy()).
destroyShallow(w, o) ==
    IF w.destroyed[o] THEN w
    ELSE LET w1 == [w EXCEPT !.destroyed[o] = TRUE]
             w2 == IF w1.parent[o] # 0 THEN removeChild(w1, w1.parent[o], o) ELSE w1
             kids == {w2.children[o][i] : i \in 1..Len(w2.children[o])}
         IN  [w2 EXCEPT !.destroyed = [c \in DOMAIN @ |-> IF c \in kids THEN TRUE ELSE @[c]],
                        !.parent = [c \in DOMAIN @ |-> IF c \in kids THEN 0 ELSE @[c]]]

\* destroy() that also takes the object out of the two lists at once.
destroyEager(w, o) ==
    IF w.destroyed[o] THEN w
    ELSE LET w1 == [w EXCEPT !.destroyed[o] = TRUE,
                             !.engineObjects = splice(@, indexOf(@, o)),
                             !.engineCollideObjects =
                                 IF includes(@, o) THEN splice(@, indexOf(@, o)) ELSE @]
             w2 == IF w1.parent[o] # 0 THEN removeChild(w1, w1.parent[o], o) ELSE w1
         IN  destroyChildren(w2, o, 1)

\* The loop "for (const child of this.children) child.destroy(child.parent = 0)"
\* of o.destroy(), from iterator position i on; the array iterator reads the
\* array's current length at every step.
destroyChildren(w, o, i) ==
    IF i > Len(w.children[o]) THEN w
    ELSE LET child == w.children[o][i]
             w1 == [w EXCEPT !.parent[child] = 0]
         IN  destroyChildren(destroy(w1, child), o, i + 1)

\* o.destroy()
destroy(w, o) ==
    IF w.destroyed[o] THEN w
    ELSE LET w1 == [w EXCEPT !.destroyed[o] = TRUE]
             w2 == IF w1.parent[o] # 0 THEN removeChild(w1, w1.parent[o], o) ELSE w1
         IN  destroyChildren(w2, o, 1)

\* setCollision() that pushes the object whenever the flag is asked for,
\* whether or not it was set already.
setCollisionAlwaysPush(w, o, v) ==
    LET list == w.engineCollideObjects
        list1 == IF v THEN Append(list, o)
                 ELSE IF w.collideSolidObjects[o] THEN splice(list, indexOf(list, o))
                 ELSE list
    IN  [w EXCEPT !.engineCollideObjects = list1,
                  !.collideSolidObjects[o] = v]

\* o.setCollision(v): keeps engineCollideObjects in step with the flag.
setCollision(w, o, v) ==
    LET list == w.engineCollideObjects
        list1 == IF v /\ ~w.collideSolidObjects[o] THEN Append(list, o)
                 ELSE IF ~v /\ w.collideSolidObjects[o] THEN splice(list, indexOf(list, o))
                 ELSE list
    IN  [w EXCEPT !.engineCollideObjects = list1,
                  !.collideSolidObjects[o] = v]

\* --------------------------------------------------------------- calls

\* The ancestors of o along the parent links.
RECURSIVE ancestors(_, _, _)
ancestors(w, o, n) ==
    IF n = 0 \/ w.parent[o] = 0 THEN {}
    ELSE {w.parent[o]} \cup ancestors(w, w.parent[o], n - 1)

Constructed(w) == 1..w.objCount

\* Whether the constructor of the k-th object calls this.setCollision(), as the
\* constructors of Prop, Grenade, Bullet and Character do and those of
\* ParticleEmitter, Weapon and TileLayer do not: the objects alternate between
\* the two kinds.
Collides(k) == k % 2 = 1

\* The calls the application and the update() overrides make on the graph.
Calls(w) ==
    {[op |-> "new", a |-> 0, b |-> 0]}
    \cup {[op |-> "destroy", a |-> o, b |-> 0] : o \in Constructed(w)}
    \cup {[op |-> "addChild", a |-> p, b |-> c] : p \in Constructed(w), c \in Constructed(w)}
    \cup {[op |-> "removeChild", a |-> p, b |-> c] : p \in Constructed(w), c \in Constructed(w)}

\* What a call requires: the ASSERTs of the method, and for addChild what its
\* call sites provide (a child that is a live object outside the parent's own
\* ancestry: each call site passes an object it has just constructed).
CallAllowed(w, call) ==
    CASE call.op = "new" -> w.objCount < MaxEnt
      [] call.op = "destroy" -> TRUE
      [] call.op = "addChild" ->
            /\ w.parent[call.b] = 0
            /\ ~includes(w.children[call.a], call.b)
            /\ ~w.destroyed[call.b]
            /\ call.b # call.a
            /\ call.b \notin ancestors(w, call.a, MaxEnt)
      [] call.op = "removeChild" ->
            /\ w.parent[call.b] = call.a
            /\ includes(w.children[call.a], call.b)
      [] OTHER -> FALSE

\* The graph after a call.
Apply(w, call) ==
    CASE call.op = "new" ->
            IF Collides(w.objCount + 1)
            THEN setCollision(constructor(w), w.objCount + 1, TRUE)
            ELSE constructor(w)
      [] call.op = "destroy" -> destroy(w, call.a)
      [] call.op = "addChild" -> addChild(w, call.a, call.b)
      [] call.op = "removeChild" -> removeChild(w, call.a, call.b)
      [] OTHER -> w

\* The objects a step constructed or gave another parent.
Moved(w, w1) ==
    {o \in Constructed(w1) : o \notin Constructed(w) \/ w1.parent[o] # w.parent[o]}

SetWorld(w) ==
    /\ engineObjects' = w.engineObjects
    /\ engineCollideObjects' = w.engineCollideObjects
    /\ objCount' = w.objCount
    /\ destroyed' = w.destroyed
    /\ parent' = w.parent
    /\ children' = w.children
    /\ collideSolidObjects' = w.collideSolidObjects

\* ---------------------------------------------------------------- Init

InitObjects ==
    /\ engineObjects = <<>>
    /\ engineCollideObjects = <<>>
    /\ frame = 0
    /\ objCount = 0
    /\ destroyed = [o \in Ent |-> FALSE]
    /\ parent = [o \in Ent |-> 0]
    /\ children = [o \in Ent |-> <<>>]
    /\ collideSolidObjects = [o \in Ent |-> FALSE]
    /\ pc = "idle"
    /\ rootIdx = 0
    /\ stack = <<>>
    /\ updateCount = [o \in Ent |-> 0]
    /\ moved = {}
    /\ tickOps = 0

\* let tileCollision = [], tileCollisionSize = vec2(): no grid yet.
NoGrid ==
    /\ tileCollisionSize = [x |-> 0, y |-> 0]
    /\ tileCollision = <<>>
    /\ gridOp = [op |-> "none"]

\* Lengths and velocities are fixed-point numbers, in units of 1/1000 tile (per
\* tick); the engine's constants in that unit.
gravity == -10
maxObjectSpeed == 1000
epsilon == 1
pushAwayAccel == 1

\* One tile: maxObjectSpeed is one tile per tick.
Tile == maxObjectSpeed

\* vec2(x, y)
Vec(x, y) == [x |-> x, y |-> y]

\* The physics fields an EngineObject is constructed with (velocity 0, mass 1,
\* collideTiles and gravityScale 1, elasticity 0, no ground object), with size
\* one tile and the coefficients that are not representable set to 1.
\* groundObject is 0 (unset or false), an object, or -1 (true: a tile).
\* angle, angleVelocity and localAngle are in quarter turns.
newBody(pos) ==
    [pos |-> pos, velocity |-> Vec(0, 0), size |-> Vec(Tile, Tile),
     angle |-> 0, angleVelocity |-> 0,
     mass |-> 1, damping |-> CoefDen, angleDamping |-> CoefDen,
     elasticity |-> 0, friction |-> CoefDen, gravityScale |-> CoefDen,
     collideTiles |-> TRUE, isSolid |-> FALSE, groundObject |-> 0,
     localPos |-> Vec(0, 0), localAngle |-> 0, mirror |-> FALSE]

\* No update() has run, and none will: the physics run lasts until ticks.
\* landed[o] is the object that the collisions with objects of o's last
\* update() recorded as o's groundObject (0 if none), landedWas is landed
\* before the last update(), dead the destroyed flags at the last update().
noUpdate ==
    [o |-> 0, before |-> <<>>, log |-> {}, tickStart |-> <<>>, until |-> 0,
     landed |-> [o \in Ent |-> 0], landedWas |-> [o \in Ent |-> 0],
     dead |-> [o \in Ent |-> FALSE]]

\* No object is given physics fields other than the constructor's.
NoPhys ==
    /\ body = [o \in Ent |-> newBody(Vec(0, 0))]
    /\ physOp = noUpdate

\* let frameTimeBufferMS = 0, paused = 0: no display callback yet.
NoTime ==
    /\ frameTimeBufferMS = 0
    /\ paused = FALSE
    /\ callbacks = [count |-> 0, ticks |-> 0, delta |-> 0]

\* No forEachObject call has been made.
noScan ==
    [pc |-> "none", list |-> <<>>, i |-> 0, mode |-> "none", collideObjectsOnly |-> FALSE,
     pos |-> Vec(0, 0), size |-> Vec(0, 0), calls |-> <<>>, dead |-> <<>>]

NoExt == NoPhys /\ NoTime /\ scan = noScan

Init == InitObjects /\ NoGrid /\ NoExt

\* ------------------------------------------- calls made between ticks

\* appInit / appUpdate / appUpdatePost making one call on the graph.
AppCall(call) ==
    /\ pc = "idle"
    /\ call \in Calls(World)
    /\ CallAllowed(World, call)
    /\ SetWorld(Apply(World, call))
    /\ UNCHANGED <<frame, pc, rootIdx, stack, updateCount, moved, tickOps>>
    /\ UNCHANGED <<gridVars, extVars>>

Create == AppCall([op |-> "new", a |-> 0, b |-> 0])
Destroy == \E o \in Ent : AppCall([op |-> "destroy", a |-> o, b |-> 0])
AddChild == \E p, c \in Ent : AppCall([op |-> "addChild", a |-> p, b |-> c])
RemoveChild == \E p, c \in Ent : AppCall([op |-> "removeChild", a |-> p, b |-> c])

\* --------------------------------------------- engineUpdateObjects

\* Activations whose for-of loop over o.children is exhausted return at once:
\* no code runs between the return of updateObject(child) and the iterator's
\* next step, which reads the array's current length.
RECURSIVE unwind(_, _)
unwind(st, w) ==
    IF st = <<>> THEN st
    ELSE LET top == st[Len(st)]
         IN  IF top.i > Len(w.children[top.o])
             THEN unwind(SubSeq(st, 1, Len(st) - 1), w)
             ELSE st

\* The effect of o.update() on the graph: the base class leaves it alone; an
\* override (ParticleEmitter, Weapon, Bullet, GameObject, ...) may make a call.
UpdateEffects(w) ==
    {[op |-> "none", a |-> 0, b |-> 0]}
    \cup (IF tickOps < MaxTickOps THEN {c \in Calls(w) : CallAllowed(w, c)} ELSE {})

\* updateObject() without the test of o.destroyed.
updateObjectAlways(o, st) ==
    \E eff \in UpdateEffects(World) :
        LET w1 == Apply(World, eff)
        IN  /\ SetWorld(w1)
            /\ updateCount' = [updateCount EXCEPT ![o] = @ + 1]
            /\ moved' = moved \cup Moved(World, w1)
            /\ tickOps' = IF eff.op = "none" THEN tickOps ELSE tickOps + 1
            /\ stack' = unwind(Append(st, [o |-> o, i |-> 1]), w1)

\* updateObject(o) called with the callers' activations st: o.update() if o is
\* not destroyed, then the loop over o.children starts.
updateObject(o, st) ==
    IF destroyed[o]
    THEN /\ stack' = unwind(st, World)
         /\ UNCHANGED <<engineObjects, engineCollideObjects, objCount, destroyed, parent,
                        children, collideSolidObjects, updateCount, moved, tickOps>>
    ELSE \E eff \in UpdateEffects(World) :
            LET w1 == Apply(World, eff)
            IN  /\ SetWorld(w1)
                /\ updateCount' = [updateCount EXCEPT ![o] = @ + 1]
                /\ moved' = moved \cup Moved(World, w1)
                /\ tickOps' = IF eff.op = "none" THEN tickOps ELSE tickOps + 1
                /\ stack' = unwind(Append(st, [o |-> o, i |-> 1]), w1)

\* engineUpdateObjects(): entry.
StartTick ==
    /\ pc = "idle"
    /\ frame < MaxFrame
    /\ pc' = "tick"
    /\ rootIdx' = 1
    /\ UNCHANGED <<engineObjects, engineCollideObjects, frame, objCount, destroyed, parent,
                   children, collideSolidObjects, stack, updateCount, moved, tickOps>>
    /\ UNCHANGED <<gridVars, extVars>>

\* One step of "for (const o of engineObjects) o.parent || updateObject(o)".
RootStep ==
    /\ pc = "tick"
    /\ stack = <<>>
    /\ rootIdx <= Len(engineObjects)
    /\ rootIdx' = rootIdx + 1
    /\ LET o == engineObjects[rootIdx]
       IN  IF parent[o] # 0
           THEN UNCHANGED <<engineObjects, engineCollideObjects, objCount, destroyed,
                            parent, children, collideSolidObjects, stack, updateCount,
                            moved, tickOps>>
           ELSE updateObject(o, stack)
    /\ UNCHANGED <<frame, pc>>
    /\ UNCHANGED <<gridVars, extVars>>

\* One step of "for (const child of o.children) updateObject(child)" in the
\* innermost activation of updateObject.
ChildStep ==
    /\ pc = "tick"
    /\ stack # <<>>
    /\ LET top == stack[Len(stack)]
       IN  updateObject(children[top.o][top.i], [stack EXCEPT ![Len(stack)].i = @ + 1])
    /\ UNCHANGED <<frame, pc, rootIdx>>
    /\ UNCHANGED <<gridVars, extVars>>

\* The walk of engineUpdateObjects is over: both loops are exhausted.
WalkDone == pc = "tick" /\ stack = <<>> /\ rootIdx > Len(engineObjects)

\* A compaction that keeps the destroyed objects and drops the live ones.
filterDestroyed(list, w) == SelectSeq(list, LAMBDA o : w.destroyed[o])

\* Array.prototype.filter(o => !o.destroyed)
filterLive(list, w) == SelectSeq(list, LAMBDA o : ~w.destroyed[o])

\* engineUpdateObjects(): after the walk, compaction of both lists and ++frame.
EndTick ==
    /\ WalkDone
    /\ engineObjects' = filterLive(engineObjects, World)
    /\ engineCollideObjects' = filterLive(engineCollideObjects, World)
    /\ frame' = frame + 1
    /\ pc' = "idle"
    /\ rootIdx' = 0
    /\ updateCount' = [o \in Ent |-> 0]
    /\ moved' = {}
    /\ tickOps' = 0
    /\ UNCHANGED <<objCount, destroyed, parent, children, collideSolidObjects, stack>>
    /\ UNCHANGED <<gridVars, extVars>>

Next ==
    \/ Create
    \/ Destroy
    \/ AddChild
    \/ RemoveChild
    \/ StartTick
    \/ RootStep
    \/ ChildStep
    \/ EndTick

Spec == Init /\ [][Next]_vars

\* ------------------------------------------------------------ tile grid

abs(a) == IF a < 0 THEN -a ELSE a
sign(a) == IF a < 0 THEN -1 ELSE 1

\* v|0 for the fixed-point number n/d: truncation toward zero.
Trunc(n, d) == IF n >= 0 THEN n \div d ELSE -((-n) \div d)

\* The grid as one value, so that the functions on it can be applied to it.
Tiles == [size |-> tileCollisionSize, data |-> tileCollision]

\* a[i]: an index the array does not hold reads undefined (falsy, 0 here).
arrayGet(a, i) == IF i \in DOMAIN a THEN a[i] ELSE 0

\* a[i] = v: a write at an index the array does not hold adds that index.
arraySet(a, i, v) == [j \in (DOMAIN a) \cup {i} |-> IF j = i THEN v ELSE a[j]]

\* initTileCollision(size): array indices 0 .. area-1, all 0.
initTileCollision(size) ==
    [size |-> size, data |-> [i \in 0..(size.x * size.y - 1) |-> 0]]

\* arrayCheck that also accepts the coordinate equal to the size.
arrayCheckInclusive(pos, arraySize) ==
    /\ pos.x >= 0 /\ pos.y >= 0
    /\ pos.x <= arraySize.x * Scale /\ pos.y <= arraySize.y * Scale

\* Vector2.arrayCheck(arraySize), pos in units of 1/Scale tile.
arrayCheck(pos, arraySize) ==
    /\ pos.x >= 0 /\ pos.y >= 0
    /\ pos.x < arraySize.x * Scale /\ pos.y < arraySize.y * Scale

\* (pos.y|0)*tileCollisionSize.x+pos.x|0, which is ((pos.y|0)*size.x + pos.x)|0
tileIndex(t, pos) == Trunc(Trunc(pos.y, Scale) * t.size.x * Scale + pos.x, Scale)

\* setTileCollisionData(pos, data)
setTileCollisionData(t, pos, data) ==
    IF arrayCheck(pos, t.size)
    THEN [t EXCEPT !.data = arraySet(@, tileIndex(t, pos), data)]
    ELSE t

\* getTileCollisionData(pos)
getTileCollisionData(t, pos) ==
    IF arrayCheck(pos, t.size) THEN arrayGet(t.data, tileIndex(t, pos)) ELSE 0

\* EngineObject.collideWithTile(data, pos) and collideWithTileRaycast(data, pos)
collideWithTile(object, data) == data > 0
collideWithTileRaycast(object, data) == data > 0

\* The whole cells of the box [pos - size/2, pos + size/2], bounds truncated.
boxCells(pos, size) ==
    LET minX == Trunc(2 * pos.x - size.x, 2 * Scale)
        minY == Trunc(2 * pos.y - size.y, 2 * Scale)
        maxX == Trunc(2 * pos.x + size.x, 2 * Scale)
        maxY == Trunc(2 * pos.y + size.y, 2 * Scale)
    IN  {[x |-> x, y |-> y] : x \in minX..maxX, y \in minY..maxY}

\* tileCollisionTest(pos, size, object): object 0 is no object. TRUE for 1,
\* FALSE for undefined.
tileCollisionTest(t, pos, size, object) ==
    \E c \in boxCells(pos, size) :
        LET tileData == arrayGet(t.data, c.y * t.size.x + c.x)
        IN  tileData # 0 /\ (object = 0 \/ collideWithTile(object, tileData))

\* Vector2.int(), from units of 1/Scale tile to whole tiles.
int(pos) == [x |-> Trunc(pos.x, Scale), y |-> Trunc(pos.y, Scale)]

\* The constants of one raycast: end cell, dx, dy, sx, sy and the object.
rayOf(posStart, posEnd, object) ==
    LET s == int(posStart)
        e == int(posEnd)
    IN  [startX |-> s.x, startY |-> s.y, endX |-> e.x, endY |-> e.y,
         dx |-> abs(e.x - s.x), dy |-> -abs(e.y - s.y),
         sx |-> sign(e.x - s.x), sy |-> sign(e.y - s.y), object |-> object]

\* A step that walks along x to the end column and then along y.
rayStepAxisFirst(r, x, y, e) ==
    LET stepX == x # r.endX
        stepY == ~stepX /\ y # r.endY
    IN  [x |-> IF stepX THEN x + r.sx ELSE x,
         y |-> IF stepY THEN y + r.sy ELSE y,
         e |-> e + (IF stepX THEN r.dy ELSE 0) + (IF stepY THEN r.dx ELSE 0)]

\* "update Bresenham line drawing algorithm": the cell and error term after
\* the one at (x, y) with error term e.
rayStep(r, x, y, e) ==
    LET e2 == 2 * e
        stepX == e2 >= r.dy
        stepY == e2 <= r.dx
    IN  [x |-> IF stepX THEN x + r.sx ELSE x,
         y |-> IF stepY THEN y + r.sy ELSE y,
         e |-> e + (IF stepX THEN r.dy ELSE 0) + (IF stepY THEN r.dx ELSE 0)]

\* rayAccepts where a ray cast without an object stops at any code but 0.
rayAcceptsNonzero(r, tileData) ==
    tileData # 0 /\ (IF r.object # 0 THEN collideWithTileRaycast(r.object, tileData)
                     ELSE TRUE)

\* The test a visited cell's code must pass to be the hit.
rayAccepts(r, tileData) ==
    tileData # 0 /\ (IF r.object # 0 THEN collideWithTileRaycast(r.object, tileData)
                     ELSE tileData > 0)

\* A hit at the centre of cell (x, y), in half tiles; undefined for no hit.
hitAt(x, y) == [hit |-> TRUE, x2 |-> 2 * x + 1, y2 |-> 2 * y + 1]
noHit == [hit |-> FALSE, x2 |-> 0, y2 |-> 0]

RECURSIVE rayLoopInsideGrid(_, _, _, _, _)
\* rayLoop that ends the walk at the first cell outside the grid.
rayLoopInsideGrid(t, r, x, y, e) ==
    IF ~arrayCheck([x |-> x * Scale, y |-> y * Scale], t.size) THEN noHit
    ELSE IF rayAccepts(r, getTileCollisionData(t, [x |-> x * Scale, y |-> y * Scale]))
    THEN hitAt(x, y)
    ELSE IF x = r.endX /\ y = r.endY THEN noHit
    ELSE LET n == rayStep(r, x, y, e)
         IN  rayLoopInsideGrid(t, r, n.x, n.y, n.e)

RECURSIVE rayLoopBreakFirst(_, _, _, _, _)
\* rayLoop that leaves at the end cell before it looks at the end cell's code.
rayLoopBreakFirst(t, r, x, y, e) ==
    IF x = r.endX /\ y = r.endY THEN noHit
    ELSE IF rayAccepts(r, getTileCollisionData(t, [x |-> x * Scale, y |-> y * Scale]))
    THEN hitAt(x, y)
    ELSE LET n == rayStep(r, x, y, e)
         IN  rayLoopBreakFirst(t, r, n.x, n.y, n.e)

RECURSIVE rayLoop(_, _, _, _, _)
\* The loop of tileCollisionRaycast from cell (x, y) with error term e.
rayLoop(t, r, x, y, e) ==
    IF rayAccepts(r, getTileCollisionData(t, [x |-> x * Scale, y |-> y * Scale]))
    THEN hitAt(x, y)
    ELSE IF x = r.endX /\ y = r.endY THEN noHit
    ELSE LET n == rayStep(r, x, y, e)
         IN  rayLoop(t, r, n.x, n.y, n.e)

\* tileCollisionRaycast(posStart, posEnd, object)
tileCollisionRaycast(t, posStart, posEnd, object) ==
    LET r == rayOf(posStart, posEnd, object)
    IN  rayLoop(t, r, r.startX, r.startY, r.dx + r.dy)

RECURSIVE rayPath(_, _, _, _)
\* The cells the loop of tileCollisionRaycast visits when no cell is a hit.
rayPath(r, x, y, e) ==
    IF x = r.endX /\ y = r.endY THEN <<[x |-> x, y |-> y]>>
    ELSE LET n == rayStep(r, x, y, e)
         IN  <<[x |-> x, y |-> y]>> \o rayPath(r, n.x, n.y, n.e)

\* ----------------------------------------------- tile grid: the calls

\* tileType_ladder, tileType_empty, tileType_solid
Codes == {-1, 0, 1}

\* Positions in and around the grid, in units of 1/Scale tile.
GridPos ==
    {[x |-> px, y |-> py] : px \in (-Scale)..((GridW + 1) * Scale),
                            py \in (-Scale)..((GridH + 1) * Scale)}

\* Sizes of the boxes tested: the default vec2() and one tile.
BoxSizes == {[x |-> 0, y |-> 0], [x |-> Scale, y |-> Scale]}

\* Cells rays start and end in: the grid, one cell around it, two to its right.
RayCells == {[x |-> cx, y |-> cy] : cx \in (-1)..(GridW + 1), cy \in (-1)..GridH}

\* No object, or an EngineObject with the base class' predicates.
Objects == {0, 1}

nonzeroCells(t) == {i \in DOMAIN t.data : t.data[i] # 0}

GridOp(op, p, q, data, object, ret) ==
    [op |-> op, p |-> p, q |-> q, data |-> data, object |-> object, ret |-> ret]

Origin == [x |-> 0, y |-> 0]

\* The level is loaded: initTileCollision(size).
InitGrid ==
    /\ InitObjects
    /\ NoExt
    /\ tileCollisionSize = [x |-> GridW, y |-> GridH]
    /\ tileCollision = initTileCollision([x |-> GridW, y |-> GridH]).data
    /\ gridOp = GridOp("init", Origin, Origin, 0, 0, 0)

\* The grids a loaded level can hold: any codes, at most MaxSolid cells not 0.
LevelGrids ==
    {d \in [0..(GridW * GridH - 1) -> Codes] :
        Cardinality({i \in DOMAIN d : d[i] # 0}) <= MaxSolid}

\* The level is loaded and its tiles are written.
InitRay ==
    /\ InitObjects
    /\ NoExt
    /\ tileCollisionSize = [x |-> GridW, y |-> GridH]
    /\ tileCollision \in LevelGrids
    /\ gridOp = GridOp("init", Origin, Origin, 0, 0, 0)

\* A run writes the grid and then makes one query, whose result gridOp keeps.
Writing == gridOp.op \in {"init", "set"}

\* setTileCollisionData(pos, data); gridOp keeps the code and whether the
\* position passed arrayCheck (the call returns false when it did not).
SetTile ==
    /\ Writing
    /\ \E pos \in GridPos, data \in Codes :
        LET t1 == setTileCollisionData(Tiles, pos, data)
        IN  /\ Cardinality(nonzeroCells(t1)) <= MaxSolid
            /\ tileCollision' = t1.data
            /\ gridOp' = GridOp("set", Origin, Origin, data, 0,
                                arrayCheck(pos, tileCollisionSize))
    /\ UNCHANGED tileCollisionSize
    /\ UNCHANGED <<objVars, extVars>>

\* getTileCollisionData(pos)
GetTile ==
    /\ Writing
    /\ \E pos \in GridPos :
        gridOp' = GridOp("get", pos, Origin, 0, 0, getTileCollisionData(Tiles, pos))
    /\ UNCHANGED <<tileCollisionSize, tileCollision>>
    /\ UNCHANGED <<objVars, extVars>>

\* tileCollisionTest(pos, size, object)
RegionTest ==
    /\ Writing
    /\ \E pos \in GridPos, size \in BoxSizes, object \in Objects :
        gridOp' = GridOp("test", pos, size, 0, object,
                         tileCollisionTest(Tiles, pos, size, object))
    /\ UNCHANGED <<tileCollisionSize, tileCollision>>
    /\ UNCHANGED <<objVars, extVars>>

\* tileCollisionRaycast(posStart, posEnd, object), from and to a cell's corner
\* (frac = 0) or a point inside the cell.
Raycast ==
    /\ Writing
    /\ \E a \in RayCells, b \in RayCells, frac \in {0, Scale - 1}, object \in Objects :
        LET posStart == [x |-> a.x * Scale + frac, y |-> a.y * Scale + frac]
            posEnd == [x |-> b.x * Scale + frac, y |-> b.y * Scale + frac]
        IN  gridOp' = GridOp("ray", posStart, posEnd, 0, object,
                             tileCollisionRaycast(Tiles, posStart, posEnd, object))
    /\ UNCHANGED <<tileCollisionSize, tileCollision>>
    /\ UNCHANGED <<objVars, extVars>>

NextGrid ==
    \/ SetTile
    \/ GetTile

SpecGrid == InitGrid /\ [][NextGrid]_vars

NextRay ==
    \/ RegionTest
    \/ Raycast

SpecRay == InitRay /\ [][NextRay]_vars

\* --------------------------------------------------------------- physics

\* clamp(v, max, min)
clamp(v, max, min) == IF v < min THEN min ELSE IF v > max THEN max ELSE v

\* The product of the coefficient k/CoefDen and v, in the fixed-point unit.
Coef(k, v) == Trunc(k * v, CoefDen)

\* isOverlapping(pA, sA, pB, sB)
isOverlapping(pA, sA, pB, sB) ==
    /\ abs(pA.x - pB.x) * 2 < sA.x + sB.x
    /\ abs(pA.y - pB.y) * 2 < sA.y + sB.y

\* tileCollisionTest(pos, size, object) for pos and size in units of 1/1000 tile.
tileCollisionTestAt(t, pos, size, object) ==
    LET minX == Trunc(2 * pos.x - size.x, 2 * Tile)
        minY == Trunc(2 * pos.y - size.y, 2 * Tile)
        maxX == Trunc(2 * pos.x + size.x, 2 * Tile)
        maxY == Trunc(2 * pos.y + size.y, 2 * Tile)
    IN  \E y \in minY..maxY, x \in minX..maxX :
            LET tileData == arrayGet(t.data, y * t.size.x + x)
            IN  tileData # 0 /\ (object = 0 \/ collideWithTile(object, tileData))

\* Math.cos and Math.sin of an angle in quarter turns.
cos(a) == CASE a % 4 = 0 -> 1 [] a % 4 = 2 -> -1 [] OTHER -> 0
sin(a) == CASE a % 4 = 1 -> 1 [] a % 4 = 3 -> -1 [] OTHER -> 0

\* Vector2.rotate(a)
rotate(v, a) == Vec(v.x * cos(a) - v.y * sin(a), v.x * sin(a) + v.y * cos(a))

\* getMirrorSign()
getMirrorSign(b) == IF b.mirror THEN -1 ELSE 1

\* update() of an object with parent p: copy parent pos/angle.
updateChild(B, p, o) ==
    LET local == Vec(B[o].localPos.x * getMirrorSign(B[o]), B[o].localPos.y)
        turned == rotate(local, -B[p].angle)
    IN  [B EXCEPT ![o].pos = Vec(turned.x + B[p].pos.x, turned.y + B[p].pos.y),
                  ![o].angle = getMirrorSign(B[o]) * B[o].localAngle + B[p].angle]

\* integrate that adds gravity whatever the gravityScale.
integrateFullGravity(b) ==
    LET vx == Coef(b.damping, clamp(b.velocity.x, maxObjectSpeed, -maxObjectSpeed))
        vy == Coef(b.damping, clamp(b.velocity.y, maxObjectSpeed, -maxObjectSpeed))
                  + gravity
        av == Coef(b.angleDamping, b.angleVelocity)
    IN  [b EXCEPT !.velocity = Vec(vx, vy),
                  !.pos = Vec(b.pos.x + vx, b.pos.y + vy),
                  !.angleVelocity = av,
                  !.angle = b.angle + av]

\* integrate that adds gravity before it applies damping.
integrateDampedGravity(b) ==
    LET vx == Coef(b.damping, clamp(b.velocity.x, maxObjectSpeed, -maxObjectSpeed))
        vy == Coef(b.damping, clamp(b.velocity.y, maxObjectSpeed, -maxObjectSpeed)
                                  + Coef(b.gravityScale, gravity))
        av == Coef(b.angleDamping, b.angleVelocity)
    IN  [b EXCEPT !.velocity = Vec(vx, vy),
                  !.pos = Vec(b.pos.x + vx, b.pos.y + vy),
                  !.angleVelocity = av,
                  !.angle = b.angle + av]

\* update(): limit max speed, apply physics.
integrate(b) ==
    LET vx == Coef(b.damping, clamp(b.velocity.x, maxObjectSpeed, -maxObjectSpeed))
        vy == Coef(b.damping, clamp(b.velocity.y, maxObjectSpeed, -maxObjectSpeed))
                  + Coef(b.gravityScale, gravity)
        av == Coef(b.angleDamping, b.angleVelocity)
    IN  [b EXCEPT !.velocity = Vec(vx, vy),
                  !.pos = Vec(b.pos.x + vx, b.pos.y + vy),
                  !.angleVelocity = av,
                  !.angle = b.angle + av]

\* update(): apply friction in local space of ground object.
applyFriction(B, o) ==
    IF B[o].groundObject = 0 THEN B
    ELSE LET g == B[o].groundObject
             groundSpeed == IF g > 0 THEN B[g].velocity.x ELSE 0
         IN  [B EXCEPT ![o].velocity.x =
                           groundSpeed + Coef(B[o].friction, @ - groundSpeed),
                       ![o].groundObject = 0]

\* deltaPos.scale(pushAwayAccel/length), each component rounded to the unit.
pushAway(deltaPos) ==
    LET unit(d, e) == IF d # 0 /\ 3 * d * d >= e * e THEN sign(d) * pushAwayAccel ELSE 0
    IN  Vec(unit(deltaPos.x, deltaPos.y), unit(deltaPos.y, deltaPos.x))

\* randVector(pushAwayAccel), rounded to the unit: the direction is random.
randVectors ==
    {Vec(pushAwayAccel, 0), Vec(-pushAwayAccel, 0), Vec(0, pushAwayAccel),
     Vec(0, -pushAwayAccel)}

\* pushApart that pushes the other object whether or not it has mass.
pushApartBothWays(S, o, c, oldPos, rnd) ==
    LET B == S.body
        deltaPos == Vec(oldPos.x - B[c].pos.x, oldPos.y - B[c].pos.y)
        near == deltaPos.x * deltaPos.x + deltaPos.y * deltaPos.y < 10 * 10
        velocity == IF near THEN rnd ELSE pushAway(deltaPos)
    IN  [body |-> [B EXCEPT ![o].velocity = Vec(@.x + velocity.x, @.y + velocity.y),
                            ![c].velocity = Vec(@.x - velocity.x, @.y - velocity.y)],
         log |-> S.log \cup {<<"stuck", c>>}]

\* update(): "if already was touching, try to push away" from object c.
pushApart(S, o, c, oldPos, rnd) ==
    LET B == S.body
        deltaPos == Vec(oldPos.x - B[c].pos.x, oldPos.y - B[c].pos.y)
        near == deltaPos.x * deltaPos.x + deltaPos.y * deltaPos.y < 10 * 10
        velocity == IF near THEN rnd ELSE pushAway(deltaPos)
        B1 == [B EXCEPT ![o].velocity = Vec(@.x + velocity.x, @.y + velocity.y)]
        B2 == IF B[c].mass # 0
              THEN [B1 EXCEPT ![c].velocity = Vec(@.x - velocity.x, @.y - velocity.y)]
              ELSE B1
    IN  [body |-> B2, log |-> S.log \cup {<<"stuck", c>>}]

\* update(): "resolve y collision" with object c.
resolveY(S, o, c, oldPos, sy, wasMovingDown) ==
    LET B == S.body
        B1 == [B EXCEPT ![o].pos.y =
                  B[c].pos.y + Trunc((sy + 2 * epsilon) * sign(oldPos.y - B[c].pos.y), 2)]
    IN  IF (B[c].groundObject # 0 /\ wasMovingDown) \/ B[c].mass = 0
        THEN [body |-> [B1 EXCEPT ![o].groundObject = IF wasMovingDown THEN c ELSE @,
                                  ![o].velocity.y = Coef(-B[o].elasticity, @)],
              log |-> S.log \cup {<<"bounceY", c>>}]
        ELSE LET v == Trunc(B[o].mass * B[o].velocity.y + B[c].mass * B[c].velocity.y,
                            B[o].mass + B[c].mass)
             IN  [body |-> [B1 EXCEPT ![o].velocity.y = v, ![c].velocity.y = v],
                  log |-> S.log \cup {<<"averageY", c>>}]

\* resolveX that sets the centre of mass velocity on this object only.
resolveXOneSided(S, o, c, oldPos, sx) ==
    LET B == S.body
        B1 == [B EXCEPT ![o].pos.x =
                  B[c].pos.x + Trunc((sx + 2 * epsilon) * sign(oldPos.x - B[c].pos.x), 2)]
    IN  IF B[c].mass # 0
        THEN LET v == Trunc(B[o].mass * B[o].velocity.x + B[c].mass * B[c].velocity.x,
                            B[o].mass + B[c].mass)
             IN  [body |-> [B1 EXCEPT ![o].velocity.x = v],
                  log |-> S.log \cup {<<"averageX", c>>}]
        ELSE [body |-> [B1 EXCEPT ![o].velocity.x = Coef(-B[o].elasticity, @)],
              log |-> S.log \cup {<<"bounceX", c>>}]

\* resolveX that sets the centre of mass velocity whatever the other's mass.
resolveXMovesFixed(S, o, c, oldPos, sx) ==
    LET B == S.body
        B1 == [B EXCEPT ![o].pos.x =
                  B[c].pos.x + Trunc((sx + 2 * epsilon) * sign(oldPos.x - B[c].pos.x), 2)]
        v == Trunc(B[o].mass * B[o].velocity.x + B[c].mass * B[c].velocity.x,
                   B[o].mass + B[c].mass)
    IN  [body |-> [B1 EXCEPT ![o].velocity.x = v, ![c].velocity.x = v],
         log |-> S.log \cup {<<IF B[c].mass # 0 THEN "averageX" ELSE "bounceX", c>>}]

\* update(): "resolve x collision" with object c.
resolveX(S, o, c, oldPos, sx) ==
    LET B == S.body
        B1 == [B EXCEPT ![o].pos.x =
                  B[c].pos.x + Trunc((sx + 2 * epsilon) * sign(oldPos.x - B[c].pos.x), 2)]
    IN  IF B[c].mass # 0
        THEN LET v == Trunc(B[o].mass * B[o].velocity.x + B[c].mass * B[c].velocity.x,
                            B[o].mass + B[c].mass)
             IN  [body |-> [B1 EXCEPT ![o].velocity.x = v, ![c].velocity.x = v],
                  log |-> S.log \cup {<<"averageX", c>>}]
        ELSE [body |-> [B1 EXCEPT ![o].velocity.x = Coef(-B[o].elasticity, @)],
              log |-> S.log \cup {<<"bounceX", c>>}]

\* update(): the body of the loop over engineCollideObjects, for object c.
collideWithSolid(S, w, o, c, oldPos, wasMovingDown, rnd) ==
    LET B == S.body
    IN  IF (~B[o].isSolid /\ ~B[c].isSolid) \/ w.destroyed[c] \/ w.parent[c] # 0
        THEN S
        ELSE IF ~isOverlapping(B[o].pos, B[o].size, B[c].pos, B[c].size) \/ c = o
        THEN S
        ELSE IF isOverlapping(oldPos, B[o].size, B[c].pos, B[c].size)
        THEN pushApart(S, o, c, oldPos, rnd)
        ELSE LET sx == B[o].size.x + B[c].size.x
                 sy == B[o].size.y + B[c].size.y
                 smallStepUp == (oldPos.y - B[c].pos.y) * 2 > sy + gravity
                 isBlockedX == abs(oldPos.y - B[c].pos.y) * 2 < sy
                 isBlockedY == abs(oldPos.x - B[c].pos.x) * 2 < sx
                 S1 == IF smallStepUp \/ isBlockedY \/ ~isBlockedX
                       THEN resolveY(S, o, c, oldPos, sy, wasMovingDown)
                       ELSE S
             IN  IF ~smallStepUp /\ (isBlockedX \/ ~isBlockedY)
                 THEN resolveX(S1, o, c, oldPos, sx)
                 ELSE S1

RECURSIVE collideSolids(_, _, _, _, _, _, _)
\* update(): for(const o of engineCollideObjects), from index i.
collideSolids(S, w, o, i, oldPos, wasMovingDown, rnd) ==
    IF i > Len(w.engineCollideObjects) THEN S
    ELSE collideSolids(collideWithSolid(S, w, o, w.engineCollideObjects[i], oldPos,
                                        wasMovingDown, rnd),
                       w, o, i + 1, oldPos, wasMovingDown, rnd)

\* The tile collision that resolves no axis when neither is blocked alone.
collideTilesNoCorner(S, t, o, oldPos, wasMovingDown) ==
    LET B == S.body
        b == B[o]
    IN  IF ~tileCollisionTestAt(t, b.pos, b.size, o) THEN S
        ELSE IF tileCollisionTestAt(t, oldPos, b.size, o) THEN S
        ELSE LET isBlockedY == tileCollisionTestAt(t, Vec(oldPos.x, b.pos.y), b.size, o)
                 isBlockedX == tileCollisionTestAt(t, Vec(b.pos.x, oldPos.y), b.size, o)
                 B1 == IF isBlockedY
                       THEN [B EXCEPT ![o].groundObject = IF wasMovingDown THEN -1 ELSE 0,
                                      ![o].pos.y = oldPos.y,
                                      ![o].velocity.y = Coef(-b.elasticity, @)]
                       ELSE B
                 B2 == IF isBlockedX
                       THEN [B1 EXCEPT ![o].pos.x = oldPos.x,
                                       ![o].velocity.x = Coef(-b.elasticity, @)]
                       ELSE B1
             IN  [body |-> B2,
                  log |-> S.log \cup (IF isBlockedY THEN {<<"tileY", 0>>} ELSE {})
                                \cup (IF isBlockedX THEN {<<"tileX", 0>>} ELSE {})]

\* The tile collision that also resolves when the previous position was
\* in collision already.
collideTilesEject(S, t, o, oldPos, wasMovingDown) ==
    LET B == S.body
        b == B[o]
    IN  IF ~tileCollisionTestAt(t, b.pos, b.size, o) THEN S
        ELSE [body |-> [B EXCEPT ![o].groundObject = IF wasMovingDown THEN -1 ELSE 0,
                                 ![o].pos = oldPos,
                                 ![o].velocity = Vec(Coef(-b.elasticity, @.x),
                                                     Coef(-b.elasticity, @.y))],
              log |-> S.log \cup {<<"tileY", 0>>, <<"tileX", 0>>}]

\* The tile collision that puts the position back but keeps the velocity.
collideTilesKeepVelocity(S, t, o, oldPos, wasMovingDown) ==
    LET B == S.body
        b == B[o]
    IN  IF ~tileCollisionTestAt(t, b.pos, b.size, o) THEN S
        ELSE IF tileCollisionTestAt(t, oldPos, b.size, o) THEN S
        ELSE [body |-> [B EXCEPT ![o].groundObject = IF wasMovingDown THEN -1 ELSE 0,
                                 ![o].pos = oldPos],
              log |-> S.log \cup {<<"tileY", 0>>, <<"tileX", 0>>}]

\* update(): "check collision against tiles".
collideTilesOf(S, t, o, oldPos, wasMovingDown) ==
    LET B == S.body
        b == B[o]
    IN  IF ~tileCollisionTestAt(t, b.pos, b.size, o) THEN S
        ELSE IF tileCollisionTestAt(t, oldPos, b.size, o) THEN S
        ELSE LET isBlockedY == tileCollisionTestAt(t, Vec(oldPos.x, b.pos.y), b.size, o)
                 isBlockedX == tileCollisionTestAt(t, Vec(b.pos.x, oldPos.y), b.size, o)
                 B1 == IF isBlockedY \/ ~isBlockedX
                       THEN [B EXCEPT ![o].groundObject = IF wasMovingDown THEN -1 ELSE 0,
                                      ![o].pos.y = oldPos.y,
                                      ![o].velocity.y = Coef(-b.elasticity, @)]
                       ELSE B
                 B2 == IF isBlockedX \/ ~isBlockedY
                       THEN [B1 EXCEPT ![o].pos.x = oldPos.x,
                                       ![o].velocity.x = Coef(-b.elasticity, @)]
                       ELSE B1
             IN  [body |-> B2,
                  log |-> S.log \cup (IF isBlockedY \/ ~isBlockedX THEN {<<"tileY", 0>>} ELSE {})
                                \cup (IF isBlockedX \/ ~isBlockedY THEN {<<"tileX", 0>>} ELSE {})]

\* update() of a root object o with mass, up to the tile collision: the
\* integration step, the ground friction and the collisions with objects.
updateSolids(B, w, o, rnd) ==
    LET oldPos == B[o].pos
        B1 == [B EXCEPT ![o] = integrate(B[o])]
        wasMovingDown == B1[o].velocity.y < 0
        S2 == [body |-> applyFriction(B1, o), log |-> {}]
    IN  IF w.collideSolidObjects[o]
        THEN collideSolids(S2, w, o, 1, oldPos, wasMovingDown, rnd)
        ELSE S2

\* update that goes on to the physics after copying the parent's pos/angle.
updateNoReturn(B, w, t, o, rnd) ==
    LET B0 == IF w.parent[o] # 0 THEN updateChild(B, w.parent[o], o) ELSE B
    IN  [body |-> [B0 EXCEPT ![o] = integrate(B0[o])],
         log |-> IF w.parent[o] # 0 THEN {<<"parent", w.parent[o]>>} ELSE {<<"fixed", 0>>}]

\* EngineObject.update() of object o: the fields of all objects after it and
\* the branches it took. rnd is the vector randVector returns if it is called.
update(B, w, t, o, rnd) ==
    IF w.parent[o] # 0
    THEN [body |-> updateChild(B, w.parent[o], o), log |-> {<<"parent", w.parent[o]>>}]
    ELSE LET oldPos == B[o].pos
             B1 == [B EXCEPT ![o] = integrate(B[o])]
         IN  IF B[o].mass = 0 THEN [body |-> B1, log |-> {<<"fixed", 0>>}]
             ELSE LET wasMovingDown == B1[o].velocity.y < 0
                      S3 == updateSolids(B, w, o, rnd)
                  IN  IF B[o].collideTiles
                      THEN collideTilesOf(S3, t, o, oldPos, wasMovingDown)
                      ELSE S3

\* --------------------------------------------------- physics: the runs

RECURSIVE updateOrderOf(_, _)
\* engineUpdateObjects' updateObject(o): o, then its children's subtrees if
\* o is not destroyed.
updateOrderOf(w, o) ==
    LET RECURSIVE kids(_)
        kids(i) == IF i > Len(w.children[o]) THEN <<>>
                   ELSE updateOrderOf(w, w.children[o][i]) \o kids(i + 1)
    IN  <<o>> \o (IF w.destroyed[o] THEN <<>> ELSE kids(1))

RECURSIVE updateOrderFrom(_, _)
\* engineUpdateObjects: for(const o of engineObjects) o.parent || updateObject(o)
updateOrderFrom(w, i) ==
    IF i > Len(w.engineObjects) THEN <<>>
    ELSE (IF w.parent[w.engineObjects[i]] # 0 THEN <<>>
          ELSE updateOrderOf(w, w.engineObjects[i])) \o updateOrderFrom(w, i + 1)

\* The objects in the order one tick updates them.
updateOrder == updateOrderFrom(World, 1)

\* One updateObject(o) of the tick in progress: o.update() if o is not
\* destroyed.
PhysUpdate ==
    /\ frame < physOp.until
    /\ rootIdx < Len(updateOrder)
    /\ IF destroyed[updateOrder[rootIdx + 1]] THEN UNCHANGED physVars ELSE
       \E rnd \in randVectors :
        LET o == updateOrder[rootIdx + 1]
            S == update(body, World, Tiles, o, rnd)
            landed == IF parent[o] = 0 /\ body[o].mass # 0
                      THEN updateSolids(body, World, o, rnd).body[o].groundObject
                      ELSE 0
        IN  /\ body' = S.body
            /\ physOp' = [physOp EXCEPT !.o = o, !.before = body, !.log = S.log,
                                        !.landedWas = physOp.landed, !.dead = destroyed,
                                        !.landed = [physOp.landed EXCEPT ![o] = landed]]
    /\ rootIdx' = rootIdx + 1
    /\ UNCHANGED <<engineObjects, engineCollideObjects, frame, objCount, destroyed, parent,
                   children, collideSolidObjects, pc, stack, updateCount, moved, tickOps>>
    /\ UNCHANGED <<gridVars, timeVars, scan>>

\* The end of engineUpdateObjects: the walk is over, both lists are filtered.
PhysTickDone ==
    /\ frame < physOp.until
    /\ rootIdx = Len(updateOrder)
    /\ frame' = frame + 1
    /\ rootIdx' = 0
    /\ physOp' = [physOp EXCEPT !.tickStart = body]
    /\ engineObjects' = filterLive(engineObjects, World)
    /\ engineCollideObjects' = filterLive(engineCollideObjects, World)
    /\ UNCHANGED <<objCount, destroyed, parent,
                   children, collideSolidObjects, pc, stack, updateCount, moved, tickOps>>
    /\ UNCHANGED <<gridVars, timeVars, scan, body>>

NextPhys ==
    \/ PhysUpdate
    \/ PhysTickDone

\* The level's collision grid: empty, with its bottom row solid, or with one
\* solid tile in the bottom row.
PhysGrids ==
    {[i \in 0..(GridW * GridH - 1) |-> IF i < GridW THEN code ELSE 0] : code \in {0, 1}}
    \cup {[i \in 0..(GridW * GridH - 1) |-> IF i = 2 THEN 1 ELSE 0]}

\* Two objects were constructed: object 2 as a child of object 1, or both
\* solid and colliding with solid objects, or neither.
PhysWorlds ==
    {[child |-> TRUE, solid |-> FALSE], [child |-> FALSE, solid |-> TRUE],
     [child |-> FALSE, solid |-> FALSE]}

\* Object 1: above the bottom row, above it and to the left of the corner of
\* tile (2, 0), or below the row under its underside.
Body1Pos == {Vec(1500, 1600), Vec(1300, 1600), Vec(1500, -1502)}
Body1Vel == {Vec(0, 0), Vec(400, 0), Vec(0, -400), Vec(400, -1200)}
\* Object 1's damping and gravityScale.
Body1Coefs == {Vec(CoefDen, CoefDen), Vec(1, CoefDen), Vec(CoefDen, 0)}
\* Object 2, relative to object 1: beside it, lower by a little less than a
\* tile, overlapping it, or all but on it.
Body2Rel == {Vec(1200, 0), Vec(1200, -997), Vec(300, 0), Vec(0, -1300), Vec(5, 0)}
Body2Vel == {Vec(0, 0), Vec(-400, 0)}

Bodies1 ==
    {[newBody(p) EXCEPT !.velocity = v, !.mass = m, !.damping = c.x,
                        !.gravityScale = c.y, !.isSolid = TRUE,
                        !.friction = CoefDen - 1, !.angle = 1, !.angleVelocity = 1] :
        p \in Body1Pos, v \in Body1Vel, m \in 0..2, c \in Body1Coefs}

Bodies2(b1) ==
    {[newBody(Vec(b1.pos.x + r.x, b1.pos.y + r.y)) EXCEPT
          !.velocity = v, !.mass = m, !.gravityScale = 0, !.isSolid = TRUE,
          !.friction = CoefDen - 1, !.localPos = Vec(200, 500), !.localAngle = 1, !.mirror = (m = 0)] :
        r \in Body2Rel, v \in Body2Vel, m \in 0..1}

InitPhys ==
    /\ \E pw \in PhysWorlds :
        /\ engineObjects = <<1, 2>>
        /\ engineCollideObjects = IF pw.solid THEN <<1, 2>> ELSE <<>>
        /\ objCount = 2
        /\ destroyed = [o \in Ent |-> FALSE]
        /\ parent = [o \in Ent |-> IF pw.child /\ o = 2 THEN 1 ELSE 0]
        /\ children = [o \in Ent |-> IF pw.child /\ o = 1 THEN <<2>> ELSE <<>>]
        /\ collideSolidObjects = [o \in Ent |-> pw.solid /\ o <= 2]
    /\ frame = 0 /\ pc = "idle" /\ rootIdx = 0 /\ stack = <<>>
    /\ updateCount = [o \in Ent |-> 0] /\ moved = {} /\ tickOps = 0
    /\ tileCollisionSize = [x |-> GridW, y |-> GridH]
    /\ tileCollision \in PhysGrids
    /\ gridOp = GridOp("init", Origin, Origin, 0, 0, 0)
    /\ \E b1 \in Bodies1 : \E b2 \in Bodies2(b1) :
        body = [o \in Ent |-> IF o = 1 THEN b1 ELSE IF o = 2 THEN b2
                              ELSE newBody(Vec(0, 0))]
    /\ physOp = [noUpdate EXCEPT !.tickStart = body, !.until = MaxFrame]
    /\ NoTime
    /\ scan = noScan

SpecPhys == InitPhys /\ [][NextPhys]_vars

\* ------------------------------------------- physics: a destroyed ground

\* o.destroy(), called by the application between ticks or by an update()
\* override during the walk, on an object without parent or children.
PhysDestroy(o) ==
    /\ frame < physOp.until
    /\ o \in Constructed(World)
    /\ ~destroyed[o]
    /\ destroyed' = destroy(World, o).destroyed
    /\ UNCHANGED <<engineObjects, engineCollideObjects, frame, objCount, parent, children,
                   collideSolidObjects, pc, rootIdx, stack, updateCount, moved, tickOps>>
    /\ UNCHANGED <<gridVars, extVars>>

NextGround ==
    \/ PhysUpdate
    \/ PhysTickDone
    \/ \E o \in Ent : PhysDestroy(o)

\* Two solid objects over an empty grid: object 1 with mass, falling, and
\* object 2 fixed (mass 0) under it or beside it.
InitGround ==
    /\ InitPhys
    /\ collideSolidObjects[1]
    /\ nonzeroCells(Tiles) = {}
    /\ body[1].mass = 1 /\ body[1].velocity.y < 0
    /\ body[2].mass = 0

SpecGround == InitGround /\ [][NextGround]_vars

\* ----------------------------------------------------- physics: the drop

\* The heights (pos.y) an object is dropped from over the solid bottom row.
DropHeights == {1500, 1503, 1510, 1530, 1560, 1600, 1750}

\* The level of a drop: the bottom row of the grid solid ("row"), or the
\* grid empty because the row asked for, y = -1, is outside it and
\* setTileCollisionData ignored the writes ("below").
DropLevels == {"row", "below"}

\* The grid after initTileCollision and setTileCollisionData(vec2(x, y), 1)
\* for every x of the row y.
dropGrid(y) ==
    LET RECURSIVE fill(_, _)
        fill(t, x) == IF x >= GridW THEN t
                      ELSE fill(setTileCollisionData(t, [x |-> x * Scale, y |-> y * Scale], 1), x + 1)
    IN  fill(initTileCollision([x |-> GridW, y |-> GridH]), 0)

\* One object of mass 1, size (1,1), elasticity 0, damping 1, gravityScale 1,
\* zero velocity, colliding with tiles: at (0, 0) with the row y = -1 asked
\* for, or at (0, h) over the solid row 0.
InitDrop ==
    /\ engineObjects = <<1>>
    /\ engineCollideObjects = <<>>
    /\ objCount = 1
    /\ destroyed = [o \in Ent |-> FALSE]
    /\ parent = [o \in Ent |-> 0]
    /\ children = [o \in Ent |-> <<>>]
    /\ collideSolidObjects = [o \in Ent |-> FALSE]
    /\ frame = 0 /\ pc = "idle" /\ rootIdx = 0 /\ stack = <<>>
    /\ updateCount = [o \in Ent |-> 0] /\ moved = {} /\ tickOps = 0
    /\ gridOp = GridOp("init", Origin, Origin, 0, 0, 0)
    /\ \E level \in DropLevels :
        /\ tileCollisionSize = dropGrid(IF level = "row" THEN 0 ELSE -1).size
        /\ tileCollision = dropGrid(IF level = "row" THEN 0 ELSE -1).data
        /\ \E h \in (IF level = "row" THEN DropHeights ELSE {0}) :
            body = [o \in Ent |-> newBody(Vec(0, IF o = 1 THEN h ELSE 0))]
    /\ physOp = [noUpdate EXCEPT !.tickStart = body, !.until = MaxDropTicks]
    /\ NoTime
    /\ scan = noScan

\* engineUpdate is called again by every display callback it requests, so
\* the ticks go on.
SpecDrop == InitDrop /\ [][NextPhys]_vars /\ WF_vars(NextPhys)

\* ------------------------------------------------------- the frame driver

\* const FPS = 60
FPS == 60

\* n milliseconds in the unit of frameTimeBufferMS, 1/6 ms, in which the
\* tick length 1e3/FPS is the whole number 100.
ms(n) == (n * FPS) \div 10

\* 1e3 / FPS: the length of a tick.
tickMS == ms(1000) \div FPS

\* Math.min
min(a, b) == IF a < b THEN a ELSE b

\* The time between two display callbacks (frameTimeMS - frameTimeLastMS):
\* none, less than a tick, a tick, a slow frame, a stalled host.
Deltas == {0, ms(8), tickMS, ms(40), ms(500)}

\* The buffer left as it is: no clamp of long frames.
unclampedBuffer(buffer) ==
    buffer

\* "clamp incase of extra long frames": min(frameTimeBufferMS, 50)
clampedBuffer(buffer) ==
    min(buffer, ms(50))

\* The numbers of iterations of
\*   for (;frameTimeBufferMS >= 0; frameTimeBufferMS -= 1e3 / FPS)
\* from the buffer b. 1e3/FPS is not a double: the decrement is the nearest
\* one, so a buffer that is a whole number of ticks may end just below 0 one
\* iteration earlier than in exact arithmetic (50 ms gives 3 iterations).
tickCounts(b) ==
    IF b < 0 THEN {0}
    ELSE {b \div tickMS + 1} \cup (IF b > 0 /\ b % tickMS = 0 THEN {b \div tickMS} ELSE {})

\* engineUpdate(frameTimeMS): one display callback, delta after the last one.
engineUpdate(delta) ==
    /\ callbacks.count < MaxCallbacks
    /\ LET added == IF ~paused THEN frameTimeBufferMS + delta ELSE frameTimeBufferMS
           smooth == added < 0 /\ added > -ms(9)
           deltaSmooth == IF smooth THEN added ELSE 0
           buffer == clampedBuffer(IF smooth THEN 0 ELSE added)
       IN  \E n \in tickCounts(buffer) :
               /\ frameTimeBufferMS' =
                      (IF n * tickMS > buffer THEN buffer - n * tickMS ELSE 0) + deltaSmooth
               /\ frame' = frame + n
               /\ callbacks' = [count |-> callbacks.count + 1, ticks |-> n, delta |-> delta]
    /\ UNCHANGED <<engineObjects, engineCollideObjects, objCount, destroyed, parent,
                   children, collideSolidObjects, pc, rootIdx, stack, updateCount, moved,
                   tickOps>>
    /\ UNCHANGED <<gridVars, physVars, paused, scan>>

NextFrame == \E delta \in Deltas : engineUpdate(delta)

\* engineInit: no object, no grid, the first callback not yet run.
InitFrame ==
    /\ engineObjects = <<>> /\ engineCollideObjects = <<>> /\ objCount = 0
    /\ destroyed = [o \in Ent |-> FALSE]
    /\ parent = [o \in Ent |-> 0]
    /\ children = [o \in Ent |-> <<>>]
    /\ collideSolidObjects = [o \in Ent |-> FALSE]
    /\ frame = 0 /\ pc = "idle" /\ rootIdx = 0 /\ stack = <<>>
    /\ updateCount = [o \in Ent |-> 0] /\ moved = {} /\ tickOps = 0
    /\ NoGrid
    /\ NoExt

SpecFrame == InitFrame /\ [][NextFrame]_vars

\* The game sets or clears the engine's global paused between two callbacks.
setPaused(v) ==
    /\ paused # v
    /\ paused' = v
    /\ UNCHANGED <<objVars, gridVars, physVars, frameTimeBufferMS, callbacks, scan>>

NextPause == NextFrame \/ \E v \in BOOLEAN : setPaused(v)

SpecPause == InitFrame /\ [][NextPause]_vars

\* ----------------------------------------------------------- forEachObject

\* Vector2.distanceSquared(p)
distanceSquared(a, p) == (a.x - p.x) * (a.x - p.x) + (a.y - p.y) * (a.y - p.y)

\* const objectList = collideObjectsOnly ? engineCollideObjects : engineObjects
objectList(w, collideObjectsOnly) ==
    IF collideObjectsOnly THEN w.engineCollideObjects ELSE w.engineObjects

\* forEachObject that passes only the objects not yet destroyed.
passesAlive(B, w, mode, pos, size, o) ==
    /\ ~w.destroyed[o]
    /\ CASE mode = "all" -> TRUE
          [] mode = "aabb" -> isOverlapping(pos, size, B[o].pos, B[o].size)
          [] mode = "circle" -> distanceSquared(pos, B[o].pos) < size.x * size.x

\* The test forEachObject makes before callbackFunction(o): none if no size
\* is given ("all"), isOverlapping if size is a vector ("aabb"), the
\* distance if it is a number, kept in size.x ("circle").
passes(B, w, mode, pos, size, o) ==
    CASE mode = "all" -> TRUE
      [] mode = "aabb" -> isOverlapping(pos, size, B[o].pos, B[o].size)
      [] mode = "circle" -> distanceSquared(pos, B[o].pos) < size.x * size.x

\* forEachObject(pos, size, callbackFunction, collideObjectsOnly) is called.
ForEachObject(pos, mode, size, collideObjectsOnly) ==
    /\ scan.pc = "none"
    /\ scan' = [noScan EXCEPT !.pc = "scan", !.mode = mode, !.pos = pos, !.size = size,
                               !.collideObjectsOnly = collideObjectsOnly,
                               !.list = objectList(World, collideObjectsOnly)]
    /\ UNCHANGED <<objVars, gridVars, physVars, timeVars>>

\* One iteration of "for (const o of objectList)": the iterator reads the
\* list as it is now; the callback destroys an object d, or none (d = 0).
ScanStep ==
    /\ scan.pc = "scan"
    /\ scan.i < Len(objectList(World, scan.collideObjectsOnly))
    /\ LET o == objectList(World, scan.collideObjectsOnly)[scan.i + 1]
       IN  IF passes(body, World, scan.mode, scan.pos, scan.size, o)
           THEN \E d \in 0..objCount :
                   LET w == IF d = 0 THEN World ELSE destroy(World, d)
                   IN  /\ scan' = [scan EXCEPT !.i = @ + 1, !.calls = Append(@, o),
                                                !.dead = Append(@, destroyed[o])]
                       /\ engineObjects' = w.engineObjects
                       /\ engineCollideObjects' = w.engineCollideObjects
                       /\ destroyed' = w.destroyed
                       /\ parent' = w.parent
                       /\ children' = w.children
           ELSE /\ scan' = [scan EXCEPT !.i = @ + 1]
                /\ UNCHANGED <<engineObjects, engineCollideObjects, destroyed, parent,
                               children>>
    /\ UNCHANGED <<frame, objCount, collideSolidObjects, pc, rootIdx, stack, updateCount,
                   moved, tickOps>>
    /\ UNCHANGED <<gridVars, physVars, timeVars>>

\* The iterator is past the end of the list: forEachObject returns.
ScanDone ==
    /\ scan.pc = "scan"
    /\ scan.i >= Len(objectList(World, scan.collideObjectsOnly))
    /\ scan' = [scan EXCEPT !.pc = "done"]
    /\ UNCHANGED <<objVars, gridVars, physVars, timeVars>>

\* The queries: a point, with no size, a box or a radius.
ScanPos == {Vec(Tile, 0), Vec(2 * Tile, 0)}
ScanSizes ==
    {[mode |-> "all", size |-> Vec(0, 0)],
     [mode |-> "aabb", size |-> Vec(2 * Tile, Tile)],
     [mode |-> "circle", size |-> Vec(Tile + Tile \div 2, 0)]}

NextScan ==
    \/ \E pos \in ScanPos, q \in ScanSizes, collideObjectsOnly \in BOOLEAN :
           ForEachObject(pos, q.mode, q.size, collideObjectsOnly)
    \/ ScanStep
    \/ ScanDone

\* The parents the objects were given by addChild: none, or object 1 the
\* parent of object 2, of objects 2 and 3, or of object 2 that is the parent
\* of object 3.
ScanParents ==
    {[o \in Ent |-> 0],
     [o \in Ent |-> IF o = 2 THEN 1 ELSE 0],
     [o \in Ent |-> IF o \in {2, 3} THEN 1 ELSE 0],
     [o \in Ent |-> IF o \in {2, 3} THEN o - 1 ELSE 0]}

\* The children lists of the parents par, in the order of the addChild calls.
RECURSIVE childrenOf(_, _, _)
childrenOf(par, p, o) ==
    IF o > MaxEnt THEN <<>>
    ELSE (IF par[o] = p THEN <<o>> ELSE <<>>) \o childrenOf(par, p, o + 1)

\* Every object was constructed, object k at (k, 0); the objects whose
\* constructor calls setCollision are in engineCollideObjects.
InitScan ==
    /\ engineObjects = [k \in 1..MaxEnt |-> k]
    /\ objCount = MaxEnt
    /\ collideSolidObjects = [o \in Ent |-> Collides(o)]
    /\ engineCollideObjects = SelectSeq(engineObjects, Collides)
    /\ destroyed = [o \in Ent |-> FALSE]
    /\ parent \in ScanParents
    /\ children = [p \in Ent |-> childrenOf(parent, p, 1)]
    /\ frame = 0 /\ pc = "idle" /\ rootIdx = 0 /\ stack = <<>>
    /\ updateCount = [o \in Ent |-> 0] /\ moved = {} /\ tickOps = 0
    /\ NoGrid
    /\ body = [o \in Ent |-> newBody(Vec(o * Tile, 0))]
    /\ physOp = noUpdate
    /\ NoTime
    /\ scan = noScan

SpecScan == InitScan /\ [][NextScan]_vars

\* ------------------------------------------------------------ the registry

\* new EngineObject(...) by the application, between ticks.
RegCreate ==
    /\ objCount < MaxEnt
    /\ SetWorld(constructor(World))
    /\ UNCHANGED <<frame, pc, rootIdx, stack, updateCount, moved, tickOps>>
    /\ UNCHANGED <<gridVars, extVars>>

\* o.setCollision(v) on an object that is not destroyed; the ASSERTs of the
\* method hold (the object is in the list exactly if it is to be taken out).
RegSetCollision(o, v) ==
    /\ o \in Constructed(World)
    /\ ~destroyed[o]
    /\ (v /\ ~collideSolidObjects[o]) => ~includes(engineCollideObjects, o)
    /\ (~v /\ collideSolidObjects[o]) => includes(engineCollideObjects, o)
    /\ SetWorld(setCollision(World, o, v))
    /\ UNCHANGED <<frame, pc, rootIdx, stack, updateCount, moved, tickOps>>
    /\ UNCHANGED <<gridVars, extVars>>

\* o.destroy()
RegDestroy(o) ==
    /\ o \in Constructed(World)
    /\ ~destroyed[o]
    /\ SetWorld(destroy(World, o))
    /\ UNCHANGED <<frame, pc, rootIdx, stack, updateCount, moved, tickOps>>
    /\ UNCHANGED <<gridVars, extVars>>

\* The end of engineUpdateObjects: both lists are filtered, ++frame.
RegCompact ==
    /\ frame < MaxFrame
    /\ engineObjects' = filterLive(engineObjects, World)
    /\ engineCollideObjects' = filterLive(engineCollideObjects, World)
    /\ frame' = frame + 1
    /\ UNCHANGED <<objCount, destroyed, parent, children, collideSolidObjects, pc, rootIdx,
                   stack, updateCount, moved, tickOps>>
    /\ UNCHANGED <<gridVars, extVars>>

NextReg ==
    \/ RegCreate
    \/ \E o \in Ent, v \in BOOLEAN : RegSetCollision(o, v)
    \/ \E o \in Ent : RegDestroy(o)
    \/ RegCompact

SpecReg == Init /\ [][NextReg]_vars

\* ------------------------------------------------ object graph: claims

elems(s) == {s[i] : i \in 1..Len(s)}

\* The objects reachable from the objects of S along the child lists.
RECURSIVE reach(_, _, _)
reach(w, S, n) ==
    LET T == S \cup UNION {elems(w.children[o]) : o \in S}
    IN  IF n = 0 \/ T = S THEN S ELSE reach(w, T, n - 1)

descendants(w, o) == reach(w, elems(w.children[o]), MaxEnt)

\* C1 (as claimed): when the walk of a tick is over and the only changes made to
\* the hierarchy during it were destructions, every live object whose live
\* parent was updated in the tick has been updated in the tick too.
C1_SiblingsStillUpdated ==
    (WalkDone /\ moved # {} /\ \A m \in moved : destroyed[m]) =>
        \A c \in Constructed(World) :
            (/\ ~destroyed[c]
             /\ parent[c] # 0
             /\ ~destroyed[parent[c]]
             /\ updateCount[parent[c]] > 0) => updateCount[c] > 0

\* C2 (as claimed): c is in p.children if and only if c.parent is p.
C2_ChildIffParent ==
    \A p \in Constructed(World), c \in Constructed(World) :
        includes(children[p], c) <=> parent[c] = p

\* The footprint of the three methods that write a parent link.
ParentWrittenByMethod(c) ==
    \/ /\ parent[c] = 0                                  \* p.addChild(c)
       /\ parent'[c] # 0
       /\ children'[parent'[c]] = Append(children[parent'[c]], c)
    \/ /\ parent[c] # 0                                  \* p.removeChild(c)
       /\ parent'[c] = 0
       /\ children'[parent[c]] = splice(children[parent[c]], indexOf(children[parent[c]], c))
    \/ /\ parent[c] # 0                                  \* p.destroy(): child.parent = 0
       /\ parent'[c] = 0
       /\ destroyed'[parent[c]]
       /\ destroyed'[c]

\* C2 (amended): if c.parent is p then c is in p.children exactly once; if c is
\* in p.children and p is not destroyed then c.parent is p; and a parent link
\* changes only as addChild, removeChild or destroy change it.
C2_ParentLinkConsistent ==
    /\ [](\A p \in Constructed(World), c \in Constructed(World) :
            /\ parent[c] = p => occurrences(children[p], c) = 1
            /\ (includes(children[p], c) /\ ~destroyed[p]) => parent[c] = p)
    /\ [][\A c \in Constructed(World) : parent'[c] # parent[c] => ParentWrittenByMethod(c)]_vars

\* C2 witness: a destroyed parent still lists a child it was destroyed with,
\* while another child is attached to its parent.
C2_Witness ==
    \E q \in Constructed(World), d \in Constructed(World), c \in Constructed(World) :
        /\ destroyed[q] /\ destroyed[d] /\ includes(children[q], d) /\ parent[d] = 0
        /\ parent[c] # 0 /\ includes(children[parent[c]], c)

\* C3: o.destroy() on an object that is not destroyed flags o and every
\* descendant of o as destroyed and clears the parent of each descendant;
\* o.destroy() on a destroyed object changes nothing.
C3_DestroyTransitive ==
    \A o \in Constructed(World) :
        LET w1 == destroy(World, o)
        IN  IF destroyed[o] THEN w1 = World
            ELSE /\ w1.destroyed[o]
                 /\ \A d \in descendants(World, o) : w1.destroyed[d] /\ w1.parent[d] = 0

\* C3 witness: an object was destroyed together with a child and a grandchild.
C3_Witness ==
    \E o \in Constructed(World), c \in Constructed(World), g \in Constructed(World) :
        /\ o # c /\ c # g /\ o # g
        /\ includes(children[o], c) /\ includes(children[c], g)
        /\ destroyed[o] /\ destroyed[c] /\ destroyed[g]
        /\ parent[c] = 0 /\ parent[g] = 0

\* C4: the compaction that ends a tick leaves no destroyed object in either
\* list and keeps every object that was in a list and is not destroyed.
C4_CompactionExact ==
    [][(WalkDone /\ pc' = "idle") =>
            /\ \A o \in elems(engineObjects') : ~destroyed[o]
            /\ \A o \in elems(engineCollideObjects') : ~destroyed[o]
            /\ \A o \in elems(engineObjects) : ~destroyed[o] => o \in elems(engineObjects')
            /\ \A o \in elems(engineCollideObjects) :
                    ~destroyed[o] => o \in elems(engineCollideObjects')]_vars

\* C4 witness: after a tick, a destroyed collidable object is gone from both
\* lists and a live collidable object is still in both.
C4_Witness ==
    /\ pc = "idle"
    /\ frame > 0
    /\ \E o \in Constructed(World), k \in Constructed(World) :
        /\ destroyed[o] /\ collideSolidObjects[o]
        /\ ~includes(engineObjects, o) /\ ~includes(engineCollideObjects, o)
        /\ ~destroyed[k] /\ includes(engineObjects, k) /\ includes(engineCollideObjects, k)

\* C5: a step in which an object becomes destroyed changes neither list.
C5_DestroyKeepsLists ==
    [][(\E o \in Constructed(World) : ~destroyed[o] /\ destroyed'[o]) =>
            /\ engineObjects' = engineObjects
            /\ engineCollideObjects' = engineCollideObjects]_vars

\* C5 witness: inside a tick, an object that was updated in this tick is
\* destroyed and still in both lists.
C5_Witness ==
    /\ pc = "tick"
    /\ \E o \in Constructed(World) :
        /\ updateCount[o] > 0 /\ destroyed[o]
        /\ includes(engineObjects, o) /\ includes(engineCollideObjects, o)


\* The object whose turn it is in the walk: the one updateObject is called
\* with next, from the loop over engineObjects or over the children of the
\* innermost activation; 0 if a root-walk entry with a parent is passed over
\* or no walk is going on.
turn ==
    IF pc # "tick" THEN 0
    ELSE IF stack # <<>> THEN children[stack[Len(stack)].o][stack[Len(stack)].i]
    ELSE IF rootIdx <= Len(engineObjects) /\ parent[engineObjects[rootIdx]] = 0
         THEN engineObjects[rootIdx]
    ELSE 0

\* C22: in every tick, an object that has a parent when it is updated is
\* updated after its parent and through it (from the loop over the parent's
\* children, never from the loop over engineObjects), and an object that is
\* destroyed when its turn comes is not updated and the loop over its
\* children is not entered, so that nothing is updated through it.
C22_ParentFirstThroughParent ==
    /\ [][\A c \in Constructed(World) : updateCount'[c] > updateCount[c] =>
            /\ c = turn
            /\ stack = <<>> => parent[c] = 0
            /\ stack # <<>> => /\ parent[c] = stack[Len(stack)].o
                               /\ updateCount[parent[c]] > 0]_vars
    /\ [][(turn # 0 /\ destroyed[turn] /\ pc' = "tick") =>
            /\ updateCount' = updateCount
            /\ \A i \in 1..Len(stack') : stack'[i].o # turn]_vars
    /\ [](\A i \in 1..Len(stack) : updateCount[stack[i].o] > 0)

\* In a tick, a child was updated through its parent, and a destroyed object
\* that still lists a child was passed over in the loop over engineObjects.
C22_Witness ==
    /\ pc = "tick"
    /\ \E c \in Constructed(World) :
          parent[c] # 0 /\ updateCount[c] > 0 /\ updateCount[parent[c]] > 0
    /\ \E d \in Constructed(World) :
          /\ destroyed[d] /\ updateCount[d] = 0 /\ children[d] # <<>>
          /\ includes(engineObjects, d) /\ indexOf(engineObjects, d) < rootIdx

\* C27: in every tick the update of each object is invoked at most once, also
\* when updates attach, detach or construct objects during the walk.
C27_UpdatedAtMostOnce ==
    \A o \in Constructed(World) : updateCount[o] <= 1

\* ---------------------------------------------------- tile grid: claims

\* [0,width) x [0,height), for a position in units of 1/Scale tile.
InGrid(pos) ==
    /\ pos.x \in 0..(tileCollisionSize.x * Scale - 1)
    /\ pos.y \in 0..(tileCollisionSize.y * Scale - 1)

\* The whole cells of the grid, and the corner of a cell as a position.
GridCells ==
    {[x |-> x, y |-> y] : x \in 0..(tileCollisionSize.x - 1),
                          y \in 0..(tileCollisionSize.y - 1)}
cellPos(c) == [x |-> c.x * Scale, y |-> c.y * Scale]

\* The code of cell c: row-major in the array, 0 outside the grid.
codeAt(c) ==
    IF c \in GridCells THEN tileCollision[c.y * tileCollisionSize.x + c.x] ELSE 0

\* C6: outside [0,width) x [0,height) getTileCollisionData returns 0 and
\* setTileCollisionData changes no cell of the grid; inside, a read returns the
\* cell's code, a write followed by a read returns the written code, and the
\* write changes no other cell (every write tried on every grid the writes
\* reach).
C6_OutOfBoundsIgnored ==
    /\ gridOp.op = "get" =>
           gridOp.ret = (IF InGrid(gridOp.p) THEN codeAt(int(gridOp.p)) ELSE 0)
    /\ Writing => \A pos \in GridPos, data \in Codes :
        LET t1 == setTileCollisionData(Tiles, pos, data)
        IN  IF InGrid(pos)
            THEN /\ getTileCollisionData(t1, pos) = data
                 /\ DOMAIN t1.data = DOMAIN tileCollision
                 /\ \A c \in GridCells :
                        c # int(pos) =>
                            getTileCollisionData(t1, cellPos(c)) = codeAt(c)
            ELSE /\ t1 = Tiles
                 /\ getTileCollisionData(t1, pos) = 0

\* A write outside the grid of a code other than 0 was made to a grid that
\* holds a cell other than 0.
C6_Witness ==
    /\ gridOp.op = "set"
    /\ gridOp.ret = FALSE
    /\ gridOp.data # 0
    /\ nonzeroCells(Tiles) # {}

\* C7: tileCollisionTest reports a collision exactly when a cell of the grid
\* that the box overlaps holds a code other than 0 which the object (if one is
\* given) collides with; cells outside the grid count as empty.
C7_OutsideCellsEmpty ==
    gridOp.op = "test" =>
        (gridOp.ret <=>
            \E c \in boxCells(gridOp.p, gridOp.q) \cap GridCells :
                /\ codeAt(c) # 0
                /\ gridOp.object = 0 \/ collideWithTile(gridOp.object, codeAt(c)))

\* The cells a recorded raycast walks, in walk order.
rayWalk ==
    LET r == rayOf(gridOp.p, gridOp.q, gridOp.object)
    IN  rayPath(r, r.startX, r.startY, r.dx + r.dy)

\* The cell whose centre a hit names.
hitCell(ret) == [x |-> (ret.x2 - 1) \div 2, y |-> (ret.y2 - 1) \div 2]

\* The least index of S.
first(S) == CHOOSE i \in S : \A j \in S : i <= j

\* The raycast's result is a hit at the first cell of the walk whose index is
\* in S, and no hit when S is empty.
HitsFirstOf(walk, S) ==
    /\ gridOp.ret.hit <=> S # {}
    /\ S # {} => hitCell(gridOp.ret) = walk[first(S)]

\* C8 as stated: without an object the hit is the first visited cell whose code
\* is not 0, positive or negative; with an object it is the first visited cell
\* whose code is not 0 and which collideWithTileRaycast accepts.
C8_FirstNonzeroCell ==
    gridOp.op = "ray" =>
        LET walk == rayWalk
        IN  HitsFirstOf(walk, {i \in 1..Len(walk) :
                /\ codeAt(walk[i]) # 0
                /\ gridOp.object = 0
                      \/ collideWithTileRaycast(gridOp.object, codeAt(walk[i]))})

\* C8 amended: without an object the hit is the first visited cell whose code
\* is positive, and the ray passes cells with negative codes; with an object it
\* is the first visited cell whose code is not 0 and which
\* collideWithTileRaycast accepts.
C8_FirstAcceptedCell ==
    gridOp.op = "ray" =>
        LET walk == rayWalk
        IN  HitsFirstOf(walk, {i \in 1..Len(walk) :
                IF gridOp.object = 0
                THEN codeAt(walk[i]) > 0
                ELSE /\ codeAt(walk[i]) # 0
                     /\ collideWithTileRaycast(gridOp.object, codeAt(walk[i]))})

\* A ray cast without an object walked over a cell with a negative code.
C8_Witness ==
    /\ gridOp.op = "ray"
    /\ gridOp.object = 0
    /\ LET walk == rayWalk
       IN  \E i \in 1..Len(walk) : codeAt(walk[i]) < 0
    /\ ~gridOp.ret.hit

\* The grid's only cell with a code other than 0 is solid and lies on the
\* recorded ray's walk, strictly between its start cell and its end cell.
SingleSolidBetween ==
    /\ Cardinality(nonzeroCells(Tiles)) = 1
    /\ LET walk == rayWalk
       IN  \E i \in 2..(Len(walk) - 1) : codeAt(walk[i]) > 0

\* The recorded ray cast the other way, from its end to its start.
reverseRay == tileCollisionRaycast(Tiles, gridOp.q, gridOp.p, gridOp.object)
reverseWalk ==
    LET r == rayOf(gridOp.q, gridOp.p, gridOp.object)
    IN  rayPath(r, r.startX, r.startY, r.dx + r.dy)

\* The start and end cells share a row, a column or a diagonal.
Straight ==
    LET r == rayOf(gridOp.p, gridOp.q, gridOp.object)
    IN  r.dx = 0 \/ r.dy = 0 \/ r.dx = -r.dy

\* C9 as stated: with a single solid cell strictly between A and B on the walk
\* from A to B, the raycast from A to B and the raycast from B to A both hit.
C9_BothDirectionsHit ==
    (gridOp.op = "ray" /\ SingleSolidBetween) =>
        gridOp.ret.hit /\ reverseRay.hit

\* C9 amended: with a single solid cell C strictly between A and B on the walk
\* from A to B, the raycast from A to B hits; the raycast from B to A hits
\* exactly when C is also on the walk from B to A, which it is whenever A and B
\* share a row, a column or a diagonal.
C9_ForwardHits ==
    (gridOp.op = "ray" /\ SingleSolidBetween) =>
        /\ gridOp.ret.hit
        /\ LET back == reverseWalk
           IN  reverseRay.hit <=> \E j \in 1..Len(back) : codeAt(back[j]) > 0
        /\ Straight => reverseRay.hit

\* A ray along a diagonal was cast over a single solid cell strictly between
\* its ends.
C9_Witness ==
    /\ gridOp.op = "ray"
    /\ SingleSolidBetween
    /\ Straight
    /\ int(gridOp.p).x # int(gridOp.q).x
    /\ int(gridOp.p).y # int(gridOp.q).y

\* C10: the raycast returns the centre (x+1/2, y+1/2) of the first cell of the
\* walk, start and end cells included, whose code it accepts, and no hit exactly
\* when the walk has no such cell; along one row that is the solid cell nearest
\* to the start, (3.5, 0.5) for the ray (0,0)->(5,0) with only (3,0) solid.
C10_FirstAcceptedCentre ==
    gridOp.op = "ray" =>
        LET r == rayOf(gridOp.p, gridOp.q, gridOp.object)
            walk == rayWalk
            S == {i \in 1..Len(walk) : rayAccepts(r, codeAt(walk[i]))}
            row == {c \in GridCells :
                       /\ c.y = r.startY
                       /\ abs(c.x - r.startX) <= r.dx
                       /\ (c.x - r.startX) * r.sx >= 0
                       /\ codeAt(c) > 0}
        IN  /\ gridOp.ret.hit <=> S # {}
            /\ S # {} =>
                   /\ gridOp.ret.x2 = 2 * walk[first(S)].x + 1
                   /\ gridOp.ret.y2 = 2 * walk[first(S)].y + 1
            /\ ~gridOp.ret.hit => gridOp.ret = noHit
            /\ r.startY = r.endY =>
                   /\ gridOp.ret.hit <=> row # {}
                   /\ \A c \in row :
                          /\ gridOp.ret.y2 = 2 * c.y + 1
                          /\ abs(gridOp.ret.x2 - (2 * r.startX + 1))
                                 <= abs(2 * c.x - 2 * r.startX)
            /\ (/\ int(gridOp.p) = [x |-> 0, y |-> 0]
                /\ int(gridOp.q) = [x |-> 5, y |-> 0]
                /\ \A c \in GridCells : codeAt(c) > 0 <=> c = [x |-> 3, y |-> 0])
               => gridOp.ret = [hit |-> TRUE, x2 |-> 7, y2 |-> 1]

\* The ray (0,0)->(5,0) was cast over a grid with only (3,0) solid.
C10_Witness ==
    /\ gridOp.op = "ray"
    /\ int(gridOp.p) = [x |-> 0, y |-> 0]
    /\ int(gridOp.q) = [x |-> 5, y |-> 0]
    /\ \A c \in GridCells : codeAt(c) > 0 <=> c = [x |-> 3, y |-> 0]
    /\ gridOp.ret.hit


\* -------------------------------------------------------- physics: claims

\* The last update() was of a root object / of a child; its fields before and
\* after that update.
RootUpdated == physOp.o # 0 /\ parent[physOp.o] = 0
ChildUpdated == physOp.o # 0 /\ parent[physOp.o] # 0
was == physOp.before[physOp.o]
now == body[physOp.o]

\* The last update() applied no ground friction and resolved no collision: it
\* was the integration step alone.
IntegrationOnly ==
    /\ physOp.log \subseteq {<<"fixed", 0>>}
    /\ physOp.o # 0 => was.groundObject = 0

\* A velocity component the speed clamp leaves as it is.
WithinMaxSpeed(v) == abs(v) <= maxObjectSpeed

\* C11 as stated: the update of a root object with mass 0 leaves its vertical
\* velocity as it was when damping is 1 (for a velocity within the speed
\* limit), and leaves the position of one with zero velocity as it was.
C11_FixedIgnoresGravity ==
    (RootUpdated /\ was.mass = 0) =>
        /\ (was.damping = CoefDen /\ WithinMaxSpeed(was.velocity.y))
               => now.velocity.y = was.velocity.y
        /\ was.velocity = Vec(0, 0) => now.pos = was.pos

\* C11 amended: the update of a root object with mass 0 adds
\* gravity * gravityScale to its vertical velocity, as for any other mass; with
\* gravityScale 0 and damping 1 the vertical velocity stays the clamped one,
\* and with gravityScale 0 and zero velocity the position stays as it was.
C11_FixedFallsByGravityScale ==
    (RootUpdated /\ was.mass = 0) =>
        /\ was.damping = CoefDen =>
               now.velocity.y = clamp(was.velocity.y, maxObjectSpeed, -maxObjectSpeed)
                                    + Coef(was.gravityScale, gravity)
        /\ (was.gravityScale = 0 /\ was.velocity = Vec(0, 0)) => now.pos = was.pos
        /\ (was.gravityScale # 0 /\ was.velocity = Vec(0, 0)) =>
               now.pos = Vec(was.pos.x, was.pos.y + Coef(was.gravityScale, gravity))

\* A root object with mass 0, gravityScale 0, damping 1 and a falling
\* velocity was updated.
C11_Witness ==
    /\ RootUpdated
    /\ was.mass = 0 /\ was.gravityScale = 0 /\ was.damping = CoefDen
    /\ was.velocity.y < 0

\* C12 as stated: the integration step sets the vertical velocity to
\* damping * (old vertical velocity + gravity * gravityScale), to within the
\* rounding of the fixed-point unit, and advances the position by it.
C12_GravityBeforeDamping ==
    (RootUpdated /\ IntegrationOnly) =>
        /\ abs(now.velocity.y
               - Coef(was.damping, clamp(was.velocity.y, maxObjectSpeed, -maxObjectSpeed)
                                       + Coef(was.gravityScale, gravity))) <= 1
        /\ now.pos.y = was.pos.y + now.velocity.y

\* C12 amended: the integration step sets the vertical velocity to
\* damping * (clamped old vertical velocity) + gravity * gravityScale, gravity
\* is added after damping and is not damped, and the position is advanced by
\* the new velocity.
C12_GravityAfterDamping ==
    (RootUpdated /\ IntegrationOnly) =>
        /\ now.velocity.y
               = Coef(was.damping, clamp(was.velocity.y, maxObjectSpeed, -maxObjectSpeed))
                     + Coef(was.gravityScale, gravity)
        /\ now.velocity.x
               = Coef(was.damping, clamp(was.velocity.x, maxObjectSpeed, -maxObjectSpeed))
        /\ now.pos = Vec(was.pos.x + now.velocity.x, was.pos.y + now.velocity.y)

\* A root object with damping below 1 and a gravityScale other than 0 was
\* updated without resolving a collision.
C12_Witness ==
    /\ RootUpdated /\ IntegrationOnly
    /\ was.damping < CoefDen /\ was.gravityScale # 0
    /\ was.velocity.y # 0

\* C13: the integration step moves a root object by at most maxObjectSpeed
\* along each axis.
C13_StepWithinMaxSpeed ==
    (RootUpdated /\ IntegrationOnly) =>
        /\ abs(now.pos.x - was.pos.x) <= maxObjectSpeed
        /\ abs(now.pos.y - was.pos.y) <= maxObjectSpeed


\* The velocity of the updated object when the loop over the solid objects
\* started: after the integration step and the friction of the ground object.
atCollision ==
    applyFriction([physOp.before EXCEPT ![physOp.o] = integrate(@)], physOp.o)[physOp.o].velocity

\* v is the momentum-weighted average of v1 (mass m1) and v2 (mass m2), to
\* within the rounding of the fixed-point unit.
IsAverage(v, m1, v1, m2, v2) == abs((m1 + m2) * v - (m1 * v1 + m2 * v2)) < m1 + m2

\* C14: when the resolution with object c takes the averaging branch on an
\* axis (and no tile collision on that axis follows in the same update), both
\* objects end with the same velocity on that axis, the momentum-weighted
\* average, so the momentum on the axis is conserved; equal masses with
\* velocities +v and -v both end with 0.
C14_AverageConservesMomentum ==
    RootUpdated =>
        \A c \in Ent \ {physOp.o} :
            LET m1 == was.mass
                m2 == physOp.before[c].mass
                v1 == atCollision
                v2 == physOp.before[c].velocity
            IN  /\ (<<"averageX", c>> \in physOp.log /\ <<"tileX", 0>> \notin physOp.log) =>
                       /\ m1 > 0 /\ m2 > 0
                       /\ body[c].velocity.x = now.velocity.x
                       /\ IsAverage(now.velocity.x, m1, v1.x, m2, v2.x)
                       /\ (m1 = m2 /\ v1.x = -v2.x) => now.velocity.x = 0
                /\ (<<"averageY", c>> \in physOp.log /\ <<"tileY", 0>> \notin physOp.log) =>
                       /\ m1 > 0 /\ m2 > 0
                       /\ body[c].velocity.y = now.velocity.y
                       /\ IsAverage(now.velocity.y, m1, v1.y, m2, v2.y)
                       /\ (m1 = m2 /\ v1.y = -v2.y) => now.velocity.y = 0

\* Two objects of equal mass met head-on along x with velocities +v and -v,
\* and the averaging branch was taken.
C14_Witness ==
    /\ RootUpdated
    /\ \E c \in Ent \ {physOp.o} :
        /\ <<"averageX", c>> \in physOp.log
        /\ was.mass = physOp.before[c].mass
        /\ atCollision.x > 0
        /\ atCollision.x = -physOp.before[c].velocity.x

\* Every object of the tick has been updated.
TickUpdated == physOp.o # 0 /\ rootIdx = Len(updateOrder)

\* Objects a and b overlap by more than epsilon on both axes.
OverlapBeyondEpsilon(a, b) ==
    /\ a.size.x + b.size.x - 2 * abs(a.pos.x - b.pos.x) > 2 * epsilon
    /\ a.size.y + b.size.y - 2 * abs(a.pos.y - b.pos.y) > 2 * epsilon

\* C15: two solid, colliding root objects with positive mass that did not
\* overlap when the tick started and whose velocities differ by less than their
\* combined half-extent do not overlap by more than epsilon once the tick has
\* updated both.
C15_NoOverlapAfterTick ==
    TickUpdated =>
        \A a \in Ent, b \in Ent :
            LET A == physOp.tickStart[a]
                B == physOp.tickStart[b]
            IN  (/\ a < b /\ b <= objCount
                 /\ parent[a] = 0 /\ parent[b] = 0
                 /\ collideSolidObjects[a] /\ collideSolidObjects[b]
                 /\ A.isSolid /\ B.isSolid /\ A.mass > 0 /\ B.mass > 0
                 /\ ~isOverlapping(A.pos, A.size, B.pos, B.size)
                 /\ 2 * abs(A.velocity.x - B.velocity.x) < A.size.x + B.size.x
                 /\ 2 * abs(A.velocity.y - B.velocity.y) < A.size.y + B.size.y)
                => ~OverlapBeyondEpsilon(body[a], body[b])

\* The position and angle update() copies to a child from its parent p.
copiedPos(p, c) ==
    LET mx == IF c.mirror THEN -c.localPos.x ELSE c.localPos.x
        q == p.angle % 4
    IN  CASE q = 0 -> Vec(p.pos.x + mx, p.pos.y + c.localPos.y)
          [] q = 1 -> Vec(p.pos.x + c.localPos.y, p.pos.y - mx)
          [] q = 2 -> Vec(p.pos.x - mx, p.pos.y - c.localPos.y)
          [] q = 3 -> Vec(p.pos.x - c.localPos.y, p.pos.y + mx)
copiedAngle(p, c) == (IF c.mirror THEN -c.localAngle ELSE c.localAngle) + p.angle

\* C18: the update of an object with a parent sets its position and angle from
\* the parent's position and angle and its own local offset and angle, and
\* changes nothing else: not its velocity, angular velocity or ground object,
\* and no field of any other object.
C18_ChildCopiesParent ==
    ChildUpdated =>
        LET p == physOp.before[parent[physOp.o]]
        IN  body = [physOp.before EXCEPT ![physOp.o].pos = copiedPos(p, was),
                                         ![physOp.o].angle = copiedAngle(p, was)]

\* A child with a velocity and a local offset was updated, its parent turned.
C18_Witness ==
    /\ ChildUpdated
    /\ was.velocity # Vec(0, 0)
    /\ was.localPos # Vec(0, 0)
    /\ physOp.before[parent[physOp.o]].angle % 4 # 0
    /\ now.pos # was.pos

\* C19: the update of an object leaves the position and velocity of every
\* other object with mass 0 as they were, and the update of a root object with
\* mass 0 resolves no collision: it is the integration step alone.
C19_FixedNeverPushed ==
    RootUpdated =>
        /\ \A f \in Ent \ {physOp.o} :
               physOp.before[f].mass = 0 =>
                   /\ body[f].pos = physOp.before[f].pos
                   /\ body[f].velocity = physOp.before[f].velocity
        /\ was.mass = 0 =>
               /\ physOp.log = {<<"fixed", 0>>}
               /\ now.groundObject = was.groundObject
               /\ now.pos = Vec(was.pos.x + now.velocity.x, was.pos.y + now.velocity.y)
               /\ \A f \in Ent \ {physOp.o} : body[f] = physOp.before[f]

\* An object resolved a collision with an object of mass 0.
C19_Witness ==
    /\ RootUpdated
    /\ \E f \in Ent \ {physOp.o} :
        /\ physOp.before[f].mass = 0
        /\ \E tag \in {"stuck", "bounceX", "bounceY"} : <<tag, f>> \in physOp.log


\* ------------------------------------------------------- the drop: claims

\* The dropped object, at the end of an update: its position is the one it
\* had before the update, its ground flag is true and it has no vertical
\* velocity.
Resting ==
    /\ physOp.o = 1
    /\ body[1].pos = physOp.before[1].pos
    /\ body[1].groundObject # 0
    /\ body[1].velocity.y = 0

\* The literal scene: the object at (0, 0), the solid row asked for at y = -1.
RowBelowGrid == nonzeroCells(Tiles) = {}

C17_TicksPerCallbackBounded ==
    callbacks.count > 0 => callbacks.ticks <= 4

\* A callback after a stall of thirty ticks ran the ticks of 50 ms and no
\* more.
C17_Witness ==
    /\ callbacks.count > 0
    /\ callbacks.delta >= 30 * tickMS
    /\ callbacks.ticks >= ms(50) \div tickMS


\* -------------------------------------------------- forEachObject: claims

\* The objects of the list the scan began with that pass its extent test.
scanExpected(n) ==
    LET Test(o) == passes(body, World, scan.mode, scan.pos, scan.size, o)
    IN  SelectSeq(SubSeq(scan.list, 1, n), Test)

\* C20: a forEachObject whose callback destroys objects during the scan
\* completes, and every object that was in the scanned list when the scan
\* began and passes the extent test is passed to the callback exactly once,
\* whichever objects the callback destroys: the list is as it was when the
\* scan began, the objects passed so far are those of its first i entries
\* that pass the test, in order, and at the end those of the whole list.
C20_ScanPassesEachOnce ==
    scan.pc # "none" =>
        /\ objectList(World, scan.collideObjectsOnly) = scan.list
        /\ scan.i <= Len(scan.list)
        /\ scan.calls = scanExpected(scan.i)
        /\ scan.pc = "done" => scan.i = Len(scan.list)

\* A scan has ended in which the callback was passed an object that an
\* earlier call of it had destroyed.
C20_Witness ==
    /\ scan.pc = "done"
    /\ Len(scan.calls) >= 2
    /\ \E k \in 1..Len(scan.dead) : scan.dead[k]

\* ------------------------------------------------------ the registry: claims

\* C21: after any sequence of constructions and setCollision calls (and of
\* destructions and compactions between them), engineCollideObjects holds
\* only objects of engineObjects, holds no object twice, and holds an object
\* that is not destroyed exactly if its collideSolidObjects flag is set.
C21_CollideListFollowsFlag ==
    /\ \A o \in elems(engineCollideObjects) : includes(engineObjects, o)
    /\ \A o \in Constructed(World) : occurrences(engineCollideObjects, o) <= 1
    /\ \A o \in Constructed(World) :
          ~destroyed[o] => (includes(engineCollideObjects, o) <=> collideSolidObjects[o])

\* An object was put in the list after an object constructed later, one
\* object has its flag cleared again, and a compaction has happened.
C21_Witness ==
    /\ frame > 0
    /\ Len(engineCollideObjects) >= 2
    /\ engineCollideObjects[1] > engineCollideObjects[2]
    /\ \E o \in Constructed(World) :
          ~destroyed[o] /\ ~collideSolidObjects[o] /\ ~includes(engineCollideObjects, o)

\* ------------------------------------------- physics: claims on the branches

\* The fields of the updated object after the integration step and the
\* ground friction of the last update(), before any collision is looked at.
integrated == applyFriction([physOp.before EXCEPT ![physOp.o] = integrate(@)], physOp.o)[physOp.o]

\* The last update() was of a root object with mass that collides with solid
\* objects, and object c is one the loop over engineCollideObjects looks at:
\* another object, not destroyed, without a parent, one of the two solid.
PairLookedAt(c) ==
    /\ RootUpdated /\ was.mass # 0 /\ collideSolidObjects[physOp.o]
    /\ c # physOp.o /\ includes(engineCollideObjects, c)
    /\ ~destroyed[c] /\ parent[c] = 0
    /\ was.isSolid \/ physOp.before[c].isSolid

\* No tile collision was resolved in the last update().
NoTileResolved == <<"tileX", 0>> \notin physOp.log /\ <<"tileY", 0>> \notin physOp.log

\* C23: when the updated object overlaps another object both at its new
\* position and at its previous one, the object-object step leaves its
\* position the integrated one, takes no bounce or averaging branch, adds to
\* its velocity a push of pushAwayAccel (each component within the unit,
\* not both 0) and subtracts the same vector from the other object's
\* velocity exactly if the other object has mass.
C23_StuckPairOnlyPushed ==
    \A c \in Ent :
        (/\ PairLookedAt(c)
         /\ isOverlapping(integrated.pos, was.size, physOp.before[c].pos, physOp.before[c].size)
         /\ isOverlapping(was.pos, was.size, physOp.before[c].pos, physOp.before[c].size)
         /\ NoTileResolved) =>
            LET push == Vec(now.velocity.x - integrated.velocity.x,
                            now.velocity.y - integrated.velocity.y)
                other == physOp.before[c]
            IN  /\ physOp.log = {<<"stuck", c>>}
                /\ now.pos = integrated.pos
                /\ now.groundObject = 0
                /\ abs(push.x) <= pushAwayAccel /\ abs(push.y) <= pushAwayAccel
                /\ push # Vec(0, 0)
                /\ body[c].pos = other.pos
                /\ body[c].velocity =
                       IF other.mass # 0
                       THEN Vec(other.velocity.x - push.x, other.velocity.y - push.y)
                       ELSE other.velocity

\* An object that overlapped an object of mass 0 before and after its step
\* was pushed, and the other object was not.
C23_Witness ==
    \E c \in Ent :
        /\ PairLookedAt(c)
        /\ isOverlapping(was.pos, was.size, physOp.before[c].pos, physOp.before[c].size)
        /\ physOp.log = {<<"stuck", c>>}
        /\ physOp.before[c].mass = 0
        /\ now.velocity # integrated.velocity
        /\ body[c].velocity = physOp.before[c].velocity

\* The last update() was of a root object with mass that collides with tiles.
TilesLookedAt == RootUpdated /\ was.mass # 0 /\ was.collideTiles

\* The last update() up to its tile collision, if randVector returned rnd.
beforeTiles(rnd) == updateSolids(physOp.before, World, physOp.o, rnd)

\* The position the tile collision of the last update() began with (no
\* random vector enters a position).
posBeforeTiles == beforeTiles(Vec(pushAwayAccel, 0)).body[physOp.o].pos

\* C24: if the object's box overlaps a solid tile at its previous position
\* and at its new one, the tile collision changes nothing: position,
\* velocity and groundObject are those the update had reached before it, so
\* the object has moved by its integrated velocity.
C24_EmbeddedLeftAlone ==
    (/\ TilesLookedAt
     /\ tileCollisionTestAt(Tiles, was.pos, was.size, physOp.o)
     /\ tileCollisionTestAt(Tiles, posBeforeTiles, was.size, physOp.o)) =>
        /\ NoTileResolved
        /\ \E rnd \in randVectors :
               body = beforeTiles(rnd).body /\ physOp.log = beforeTiles(rnd).log
        /\ physOp.log = {} => (now.pos = integrated.pos /\ now.velocity = integrated.velocity)

\* An object that began the tick inside a solid tile has moved inside it.
C24_Witness ==
    /\ TilesLookedAt
    /\ tileCollisionTestAt(Tiles, was.pos, was.size, physOp.o)
    /\ tileCollisionTestAt(Tiles, now.pos, was.size, physOp.o)
    /\ physOp.log = {}
    /\ now.pos # was.pos

\* The object that the collisions with objects of the updated object's
\* previous update() recorded as its groundObject (0 if none).
landedOn == physOp.landedWas[physOp.o]

\* C25: if in a tick an object landed on another object g (the collisions
\* with objects recorded g as its groundObject), the friction step of its
\* next update() sets velocity.x to g.velocity.x + (velocity.x -
\* g.velocity.x) * friction and clears groundObject, whether or not the tile
\* collision of the first tick blocked the y axis too.
C25_FrictionTowardLandedObject ==
    (RootUpdated /\ was.mass # 0 /\ landedOn > 0) =>
        LET groundSpeed == physOp.before[landedOn].velocity.x
        IN  /\ integrated.velocity.x =
                   groundSpeed + Coef(was.friction, integrate(was).velocity.x - groundSpeed)
            /\ integrated.groundObject = 0

\* ------------------------------------- physics: claims on a destroyed ground

\* C26: if the object recorded as groundObject is destroyed when the
\* friction step reads it, the friction step does not use its velocity (the
\* horizontal velocity is left as integrated, or blended toward 0) and
\* clears the reference.
C26_DestroyedGroundNotUsed ==
    (/\ RootUpdated /\ was.mass # 0
     /\ was.groundObject > 0
     /\ physOp.dead[was.groundObject]) =>
        /\ integrated.velocity.x \in {integrate(was).velocity.x,
                                      Coef(was.friction, integrate(was).velocity.x)}
        /\ integrated.groundObject = 0

\* ------------------------------------------ physics: claims on the tile step

\* C28: if the box of a root object with mass that collides with tiles
\* overlaps no solid tile at its position before its update(), it overlaps
\* none at its position after it, whichever axes the tile collision found
\* blocked, none included (a corner).
C28_NeverEntersTile ==
    (TilesLookedAt /\ ~tileCollisionTestAt(Tiles, was.pos, was.size, physOp.o)) =>
        ~tileCollisionTestAt(Tiles, now.pos, was.size, physOp.o)

\* An object moved diagonally into the corner of a tile: neither its new x
\* alone nor its new y alone was blocked, and it was put back on both axes.
C28_Witness ==
    /\ TilesLookedAt
    /\ physOp.log = {<<"tileX", 0>>, <<"tileY", 0>>}
    /\ ~tileCollisionTestAt(Tiles, Vec(integrated.pos.x, was.pos.y), was.size, physOp.o)
    /\ ~tileCollisionTestAt(Tiles, Vec(was.pos.x, integrated.pos.y), was.size, physOp.o)
    /\ tileCollisionTestAt(Tiles, integrated.pos, was.size, physOp.o)
    /\ now.pos = was.pos

\* ------------------------------------------------- frame driver: the pause

\* C29: a display callback that runs while paused is set runs no simulation
\* tick: the frame counter is the same after it, whatever the buffer held.
C29_PausedCallbackRunsNoTick ==
    [][(paused /\ callbacks'.count # callbacks.count) => frame' = frame]_vars

\* ------------------------------------------------ tile grid: the ray's walk

\* The greater of two numbers.
max(a, b) == IF a > b THEN a ELSE b

\* C30: the walk of tileCollisionRaycast is finite for every start and end:
\* it starts at the truncated start cell, each step changes x and y by at most
\* one cell, and it is at the truncated end cell after exactly
\* max(|dx|, |dy|) steps, inside the grid or not; the call returns a hit at
\* one of the walk's cells or no hit.
C30_WalkReachesEnd ==
    gridOp.op = "ray" =>
        LET s == int(gridOp.p)
            e == int(gridOp.q)
            walk == rayWalk
        IN  /\ walk[1] = s
            /\ Len(walk) = max(abs(e.x - s.x), abs(e.y - s.y)) + 1
            /\ walk[Len(walk)] = e
            /\ \A i \in 1..(Len(walk) - 1) :
                   /\ abs(walk[i + 1].x - walk[i].x) <= 1
                   /\ abs(walk[i + 1].y - walk[i].y) <= 1
            /\ gridOp.ret.hit => \E i \in 1..Len(walk) : hitCell(gridOp.ret) = walk[i]

\* A ray with no hit that starts outside the grid, crosses it on a slant and
\* ends outside it on the other side.
C30_Witness ==
    /\ gridOp.op = "ray"
    /\ ~gridOp.ret.hit
    /\ LET s == int(gridOp.p)
           e == int(gridOp.q)
           walk == rayWalk
       IN  /\ s.x < 0 /\ e.x >= GridW
           /\ s.y # e.y
           /\ \E i \in 1..Len(walk) : walk[i] \in GridCells
           /\ Len(walk) = e.x - s.x + 1

====
